---------------------------- MODULE Spec2Model ----------------------------
(***************************************************************************)
(* A model of the bitcoincore-rpc-json codec (json/src/lib.rs): the field  *)
(* adapters (hex bytes, BTC amounts, difficulty), the enum wire tags and   *)
(* the derived struct encoders/decoders, as a state machine whose actions  *)
(* are single encode and decode calls.                                     *)
(*                                                                         *)
(* State: op is the call that was made last, arg its in-memory argument,   *)
(* wire the JSON value (serde_json::Value) it produced or consumed, out    *)
(* its result, and prev the (wire, out) of the call before it when the     *)
(* last call decoded a variant of the previous input.                      *)
(***************************************************************************)
EXTENDS Integers, Sequences, FiniteSets, TLC

VARIABLES op, arg, wire, out, prev

vars == <<op, arg, wire, out, prev>>

(***************************************************************************)
(* Results and JSON values.                                                *)
(***************************************************************************)
Ok(v) == [ok |-> TRUE, v |-> v]
Err(e) == [ok |-> FALSE, e |-> e]

None == [some |-> FALSE]
Some(v) == [some |-> TRUE, v |-> v]

JNull == [t |-> "null"]
JBool(b) == [t |-> "bool", b |-> b]
JStr(s) == [t |-> "str", s |-> s]
JArr(a) == [t |-> "arr", a |-> a]
JObj(o) == [t |-> "obj", o |-> o]

Nothing == [t |-> "nothing"]

(***************************************************************************)
(* Characters.  A string is a sequence of one-character strings.           *)
(***************************************************************************)
UpperLetters ==
  <<"A","B","C","D","E","F","G","H","I","J","K","L","M",
    "N","O","P","Q","R","S","T","U","V","W","X","Y","Z">>
LowerLetters ==
  <<"a","b","c","d","e","f","g","h","i","j","k","l","m",
    "n","o","p","q","r","s","t","u","v","w","x","y","z">>
DecDigits == <<"0","1","2","3","4","5","6","7","8","9">>

IndexOf(seq, c) ==
  IF \E i \in 1..Len(seq) : seq[i] = c
    THEN CHOOSE i \in 1..Len(seq) : seq[i] = c
    ELSE 0

is_uppercase(c) == IndexOf(UpperLetters, c) # 0
is_lowercase(c) == IndexOf(LowerLetters, c) # 0

to_ascii_lowercase_char(c) ==
  IF is_uppercase(c) THEN LowerLetters[IndexOf(UpperLetters, c)] ELSE c
to_ascii_uppercase_char(c) ==
  IF is_lowercase(c) THEN UpperLetters[IndexOf(LowerLetters, c)] ELSE c

to_ascii_lowercase(s) == [i \in 1..Len(s) |-> to_ascii_lowercase_char(s[i])]
to_ascii_uppercase(s) == [i \in 1..Len(s) |-> to_ascii_uppercase_char(s[i])]

(***************************************************************************)
(* Hex: bitcoin::hashes::hex::{ToHex, FromHex} as used by serde_hex.       *)
(***************************************************************************)
HexChars == <<"0","1","2","3","4","5","6","7","8","9","a","b","c","d","e","f">>

\* char::to_digit(16): the value of a hex digit of either case, -1 if none.
to_digit16_lower_only(c) == IndexOf(HexChars, c) - 1
to_digit16(c) == IndexOf(HexChars, to_ascii_lowercase_char(c)) - 1

\* Vec<u8>::to_hex: two lowercase digits per byte.
to_hex_upper(b) ==
  to_ascii_uppercase(
    [i \in 1..(2 * Len(b)) |->
      IF i % 2 = 1 THEN HexChars[(b[(i + 1) \div 2] \div 16) + 1]
                   ELSE HexChars[(b[i \div 2] % 16) + 1]])
to_hex(b) ==
  [i \in 1..(2 * Len(b)) |->
    IF i % 2 = 1 THEN HexChars[(b[(i + 1) \div 2] \div 16) + 1]
                 ELSE HexChars[(b[i \div 2] % 16) + 1]]

\* Vec<u8>::from_hex: an odd length or a non-hex character is an error.
from_hex_no_length_check(s) ==
  IF \E i \in 1..Len(s) : to_digit16(s[i]) < 0 THEN Err("invalid_hex")
  ELSE Ok([i \in 1..(Len(s) \div 2) |->
             16 * to_digit16(s[2 * i - 1]) + to_digit16(s[2 * i])])
from_hex(s) ==
  IF Len(s) % 2 # 0 THEN Err("invalid_hex")
  ELSE IF \E i \in 1..Len(s) : to_digit16(s[i]) < 0 THEN Err("invalid_hex")
  ELSE Ok([i \in 1..(Len(s) \div 2) |->
             16 * to_digit16(s[2 * i - 1]) + to_digit16(s[2 * i])])

\* String::deserialize: only a JSON string is a String.
deserialize_String(j) ==
  IF j.t = "str" THEN Ok(j.s) ELSE Err("invalid_type")

\* serde_hex::serialize and serde_hex::deserialize.
serde_hex_serialize(b) == JStr(to_hex(b))
serde_hex_deserialize(j) ==
  LET hex_str == deserialize_String(j) IN
  IF ~hex_str.ok THEN hex_str ELSE from_hex(hex_str.v)

(***************************************************************************)
(* Inputs of the hex adapter.                                              *)
(***************************************************************************)
MaxHexLen == 4
MaxBytes == 2

SeqsUpTo(S, n) == UNION {[1..k -> S] : k \in 0..n}

HexAlphabet == {"0", "A", "b", "C", "d", "g"}
ByteSamples == {0, 1, 10, 161, 171, 205, 255}

HexStrings == SeqsUpTo(HexAlphabet, MaxHexLen)
ByteStrings == SeqsUpTo(ByteSamples, MaxBytes)

\* The strings that differ from s in letter case only.
Recasings(s) ==
  {[i \in 1..Len(s) |->
      IF m[i] THEN to_ascii_uppercase_char(s[i]) ELSE to_ascii_lowercase_char(s[i])] :
    m \in [1..Len(s) -> BOOLEAN]}

(***************************************************************************)
(* The hex adapter's calls.                                                *)
(***************************************************************************)
HexSerialize ==
  \E b \in ByteStrings :
    /\ op = "init"
    /\ op' = "hex_serialize"
    /\ arg' = b
    /\ wire' = serde_hex_serialize(b)
    /\ out' = Nothing
    /\ prev' = Nothing

HexDeserialize ==
  \E s \in HexStrings :
    /\ op = "init"
    /\ op' = "hex_deserialize"
    /\ arg' = Nothing
    /\ wire' = JStr(s)
    /\ out' = serde_hex_deserialize(JStr(s))
    /\ prev' = Nothing

\* Decode a string that differs in letter case from the one decoded last.
HexDeserializeRecased ==
  /\ op = "hex_deserialize"
  /\ \E s \in Recasings(wire.s) :
       /\ op' = "hex_deserialize_recased"
       /\ arg' = Nothing
       /\ wire' = JStr(s)
       /\ out' = serde_hex_deserialize(JStr(s))
       /\ prev' = [wire |-> wire, out |-> out]

\* Decode what the last serialize call produced.
HexDeserializeEncoded ==
  /\ op = "hex_serialize"
  /\ op' = "hex_roundtrip"
  /\ out' = serde_hex_deserialize(wire)
  /\ UNCHANGED <<arg, wire, prev>>

InitIdle ==
  /\ op = "init"
  /\ arg = Nothing
  /\ wire = JNull
  /\ out = Nothing
  /\ prev = Nothing

\* The call returns; the codec keeps nothing of it, the caller makes the next.
Return ==
  /\ op # "init"
  /\ op' = "init"
  /\ arg' = Nothing
  /\ wire' = JNull
  /\ out' = Nothing
  /\ prev' = Nothing

HexNext ==
  \/ HexSerialize
  \/ HexDeserialize
  \/ HexDeserializeRecased
  \/ HexDeserializeEncoded
  \/ Return

SpecHex == InitIdle /\ [][HexNext]_vars

(***************************************************************************)
(* Natural numbers beyond the checker's machine integers: a number is the  *)
(* sequence of its decimal digits, most significant first, without leading *)
(* zeros (zero is <<0>>).  u64, BigUint and the f64 mantissa are such.     *)
(* The arithmetic is written as functions of digit sequences.              *)
(***************************************************************************)
Digits == Seq(0..9)
Text == Seq(STRING)

Zeros(n) == [i \in 1..n |-> 0]

MinOf(S) == CHOOSE x \in S : \A y \in S : x <= y
MaxOf(S) == CHOOSE x \in S : \A y \in S : x >= y

Strip[d \in Digits] ==
  LET nz == {i \in 1..Len(d) : d[i] # 0} IN
  IF nz = {} THEN <<0>> ELSE SubSeq(d, MinOf(nz), Len(d))

IsZero[d \in Digits] == \A i \in 1..Len(d) : d[i] = 0

\* -1, 0 or 1 as a < b, a = b or a > b; a and b of the same length.
CmpSameLen[a \in Digits, b \in Digits] ==
  LET df == {i \in 1..Len(a) : a[i] # b[i]} IN
  IF df = {} THEN 0
  ELSE IF a[MinOf(df)] < b[MinOf(df)] THEN -1 ELSE 1

\* The same for numbers without leading zeros.
Cmp[a \in Digits, b \in Digits] ==
  IF Len(a) < Len(b) THEN -1
  ELSE IF Len(a) > Len(b) THEN 1
  ELSE CmpSameLen[a, b]

Double[d \in Digits] ==
  Strip[[i \in 1..(Len(d) + 1) |->
           ((2 * (IF i = 1 THEN 0 ELSE d[i - 1])) % 10)
             + (IF i <= Len(d) /\ d[i] >= 5 THEN 1 ELSE 0)]]

\* d / 2, rounded down.
Halve[d \in Digits] ==
  Strip[[i \in 1..Len(d) |->
           (d[i] \div 2) + (IF i > 1 /\ d[i - 1] % 2 = 1 THEN 5 ELSE 0)]]

\* 5 * d, as (10 * d) / 2.
Times5[d \in Digits] == Halve[d \o <<0>>]

\* d + 1 in as many digits as d has (d is not all nines).
IncFixed[d \in Digits] ==
  LET j == MaxOf({i \in 1..Len(d) : d[i] # 9}) IN
  [i \in 1..Len(d) |-> IF i < j THEN d[i] ELSE IF i = j THEN d[i] + 1 ELSE 0]

Inc[d \in Digits] == Strip[IncFixed[<<0>> \o d]]

\* d - 1, for d > 0.
Dec[d \in Digits] ==
  LET j == MaxOf({i \in 1..Len(d) : d[i] # 0}) IN
  Strip[[i \in 1..Len(d) |-> IF i < j THEN d[i] ELSE IF i = j THEN d[i] - 1 ELSE 9]]

\* Eight steps at once keep the iterations below short.
Double8[d \in Digits] == Double[Double[Double[Double[Double[Double[Double[Double[d]]]]]]]]
Halve8[d \in Digits] == Halve[Halve[Halve[Halve[Halve[Halve[Halve[Halve[d]]]]]]]]
Times5x8[d \in Digits] == Times5[Times5[Times5[Times5[Times5[Times5[Times5[Times5[d]]]]]]]]

DoubleN[d \in Digits, n \in Nat] ==
  IF n = 0 THEN d
  ELSE IF n >= 8 THEN DoubleN[Double8[d], n - 8]
  ELSE DoubleN[Double[d], n - 1]

HalveN[d \in Digits, n \in Nat] ==
  IF n = 0 THEN d
  ELSE IF n >= 8 THEN HalveN[Halve8[d], n - 8]
  ELSE HalveN[Halve[d], n - 1]

Times5N[d \in Digits, n \in Nat] ==
  IF n = 0 THEN d
  ELSE IF n >= 8 THEN Times5N[Times5x8[d], n - 8]
  ELSE Times5N[Times5[d], n - 1]

\* x * 2^e as a decimal: the digits d and the number k of them that follow
\* the decimal point.
Decimals == [d : Digits, k : Nat]
ScalePow2[x \in Digits, e \in Int] ==
  IF e >= 0 THEN [d |-> DoubleN[x, e], k |-> 0]
  ELSE [d |-> Times5N[x, 0 - e], k |-> 0 - e]

U64Max == <<1,8,4,4,6,7,4,4,0,7,3,7,0,9,5,5,1,6,1,5>>
I64Max == <<9,2,2,3,3,7,2,0,3,6,8,5,4,7,7,5,8,0,7>>

(***************************************************************************)
(* f64.  A finite double is a sign, a mantissa m with 2^52 <= m < 2^53 and *)
(* an exponent e, and stands for m * 2^e; zero has m = 0, e = 0.  The      *)
(* numbers met here are far from the subnormal and the overflow range.     *)
(***************************************************************************)
Pow2_52 == <<4,5,0,3,5,9,9,6,2,7,3,7,0,4,9,6>>
Pow2_53 == <<9,0,0,7,1,9,9,2,5,4,7,4,0,9,9,2>>

F64s == [neg : BOOLEAN, m : Digits, e : Int]
F64(neg, m, e) == [neg |-> neg, m |-> m, e |-> e]
F64Zero == F64(FALSE, <<0>>, 0)

\* The integer part of a / 10^k.
IntPart[a \in Digits, k \in Nat] ==
  IF Len(a) > k THEN SubSeq(a, 1, Len(a) - k) ELSE <<0>>

\* The k digits of a that follow the decimal point in a / 10^k.
FracPart[a \in Digits, k \in Nat] ==
  IF Len(a) >= k THEN SubSeq(a, Len(a) - k + 1, Len(a))
  ELSE Zeros(k - Len(a)) \o a

\* -1, 0, 1 as the fraction 0.f is below, at or above one half.
CmpHalf[f \in Digits] ==
  IF Len(f) = 0 THEN -1
  ELSE IF f[1] < 5 THEN -1
  ELSE IF f[1] > 5 THEN 1
  ELSE IF \A i \in 2..Len(f) : f[i] = 0 THEN 0 ELSE 1

\* Round a / 10^k, which lies in [2^52, 2^53), to a mantissa: to the
\* nearest, a tie to the even one.
RoundMantissa[neg \in BOOLEAN, a \in Digits, k \in Nat, e \in Int] ==
  LET q == IntPart[a, k]
      h == CmpHalf[FracPart[a, k]]
      up == h > 0 \/ (h = 0 /\ q[Len(q)] % 2 = 1)
      m == IF up THEN Inc[q] ELSE q
  IN IF m = Pow2_53 THEN F64(neg, Pow2_52, e + 1) ELSE F64(neg, m, e)

\* Scale a / 10^k by powers of two into [2^52, 2^53), exactly, then round:
\* the value is (a / 10^k) * 2^e throughout.  An integer part of at most 13
\* digits is below 2^44 and can be scaled by 2^8 at once.
Normalize[neg \in BOOLEAN, a \in Digits, k \in Nat, e \in Int] ==
  LET q == IntPart[a, k] IN
  IF Len(q) <= 13 THEN Normalize[neg, Double8[a], k, e - 8]
  ELSE IF Cmp[q, Pow2_52] < 0 THEN Normalize[neg, Double[a], k, e - 1]
  ELSE IF Cmp[q, Pow2_53] >= 0 THEN Normalize[neg, Times5[a], k + 1, e + 1]
  ELSE RoundMantissa[neg, a, k, e]

\* The double nearest to n / 10^k, ties to even: IEEE-754 rounding, which
\* `u64 as f64`, f64::from_str and a division by a power of ten that is
\* itself a double all perform.
NearestF64[neg \in BOOLEAN, n \in Digits, k \in Nat] ==
  IF IsZero[n] THEN F64(neg, <<0>>, 0) ELSE Normalize[neg, Strip[n], k, 0]

\* The decimal digits of the integer an integer-valued double stands for.
F64IntegerDigits[f \in F64s] ==
  IF IsZero[f.m] THEN <<0>>
  ELSE IF f.e >= 0 THEN DoubleN[f.m, f.e]
  ELSE HalveN[f.m, 0 - f.e]

(***************************************************************************)
(* f64 to text: the shortest decimal that reads back as the same double,   *)
(* and of those the one nearest to it (Display for f64, which              *)
(* f64::to_string uses; never an exponent).                                *)
(***************************************************************************)
\* The decimals that round to a double lie between lo and hi, the midpoints
\* to the neighbouring doubles; c is the double itself.  The three are
\* written with the same number of digits, k of them after the point.
Intervals == [c : Digits, lo : Digits, hi : Digits, k : Nat, closed : BOOLEAN]

AlignInterval[C \in Decimals, LO \in Decimals, HI \in Decimals, closed \in BOOLEAN] ==
  LET len == (IF Len(HI.d) > HI.k THEN Len(HI.d) ELSE HI.k) + 1 IN
  [c |-> Zeros(len - Len(C.d)) \o C.d,
   lo |-> Zeros(len - Len(LO.d)) \o LO.d,
   hi |-> Zeros(len - Len(HI.d)) \o HI.d,
   k |-> C.k,
   closed |-> closed]

ShortestInterval[f \in F64s] ==
  LET boundary == f.m = Pow2_52
      e == IF boundary THEN f.e - 2 ELSE f.e - 1
      c0 == IF boundary THEN Double[Double[f.m]] ELSE Double[f.m]
      lo0 == Dec[c0]
      hi0 == IF boundary THEN Inc[Inc[c0]] ELSE Inc[c0]
  IN AlignInterval[ScalePow2[c0, e], ScalePow2[lo0, e], ScalePow2[hi0, e],
                   f.m[Len(f.m)] % 2 = 0]

InInterval[iv \in Intervals, x \in Digits] ==
  IF iv.closed
    THEN CmpSameLen[iv.lo, x] <= 0 /\ CmpSameLen[x, iv.hi] <= 0
    ELSE CmpSameLen[iv.lo, x] < 0 /\ CmpSameLen[x, iv.hi] < 0

\* c cut after p digits, and the next decimal of p digits above it.
FloorAt[c \in Digits, p \in Nat] == [i \in 1..Len(c) |-> IF i <= p THEN c[i] ELSE 0]
CeilAt[c \in Digits, p \in Nat] ==
  LET pre == IncFixed[SubSeq(c, 1, p)] IN
  [i \in 1..Len(c) |-> IF i <= p THEN pre[i] ELSE 0]

\* The decimal of the fewest digits, p or more, inside the interval; of two
\* the one nearer to c.
ShortestFrom[iv \in Intervals, p \in Nat] ==
  LET fl == FloorAt[iv.c, p]
      ce == CeilAt[iv.c, p]
      flIn == InInterval[iv, fl]
      ceIn == InInterval[iv, ce]
      h == CmpHalf[SubSeq(iv.c, p + 1, Len(iv.c))]
  IN IF flIn /\ ceIn THEN
       [d |-> IF h < 0 \/ (h = 0 /\ fl[p] % 2 = 0) THEN fl ELSE ce, k |-> iv.k]
     ELSE IF flIn THEN [d |-> fl, k |-> iv.k]
     ELSE IF ceIn THEN [d |-> ce, k |-> iv.k]
     ELSE ShortestFrom[iv, p + 1]

ShortestDigits[f \in F64s] == ShortestFrom[ShortestInterval[f], 1]

\* With every digit kept: what a formatter that does not shorten prints.
ExactDigitsOf[iv \in Intervals] == [d |-> iv.c, k |-> iv.k]
ExactDigits[f \in F64s] == ExactDigitsOf[ShortestInterval[f]]

DigitChars[d \in Digits] == [i \in 1..Len(d) |-> DecDigits[d[i] + 1]]

StripTrailingZeros[d \in Digits] ==
  LET nz == {i \in 1..Len(d) : d[i] # 0} IN
  IF nz = {} THEN <<>> ELSE SubSeq(d, 1, MaxOf(nz))

\* The digits s.d with s.k of them after the point, as text: no trailing
\* zeros in the fraction, no point without a fraction.
FormatDecimal[neg \in BOOLEAN, s \in Decimals] ==
  LET int == Strip[SubSeq(s.d, 1, Len(s.d) - s.k)]
      frac == StripTrailingZeros[SubSeq(s.d, Len(s.d) - s.k + 1, Len(s.d))]
  IN (IF neg THEN <<"-">> ELSE <<>>)
       \o DigitChars[int]
       \o (IF Len(frac) = 0 THEN <<>> ELSE <<".">> \o DigitChars[frac])

f64_to_string[f \in F64s] ==
  IF IsZero[f.m] THEN (IF f.neg THEN <<"-", "0">> ELSE <<"0">>)
  ELSE FormatDecimal[f.neg, ShortestDigits[f]]

(***************************************************************************)
(* Text to number.                                                         *)
(***************************************************************************)
IsDigitChar(c) == IndexOf(DecDigits, c) # 0
DigitValues[s \in Text] == [i \in 1..Len(s) |-> IndexOf(DecDigits, s[i]) - 1]

\* The index of the first c in s, Len(s) + 1 if there is none.
Find[s \in Text, c \in STRING] ==
  LET at == {i \in 1..Len(s) : s[i] = c} IN
  IF at = {} THEN Len(s) + 1 ELSE MinOf(at)

\* f64::from_str of [-]digits[.digits]: correctly rounded.
f64_from_str[s \in Text] ==
  LET neg == Len(s) > 0 /\ s[1] = "-"
      body == IF neg THEN SubSeq(s, 2, Len(s)) ELSE s
      dot == Find[body, "."]
      int == SubSeq(body, 1, dot - 1)
      frac == SubSeq(body, dot + 1, Len(body))
  IN NearestF64[neg, DigitValues[int \o frac], Len(frac)]

(***************************************************************************)
(* JSON numbers: serde_json's Number is an integer (u64 or i64) or an f64. *)
(***************************************************************************)
JInt(neg, d) == [t |-> "num", n |-> "int", neg |-> neg, d |-> d]
JFloat(f) == [t |-> "num", n |-> "f64", f |-> f]

\* serde_json reading the text of a number, [-]digits[.digits].  The digits
\* are gathered in a u64 significand for as long as they fit, and the ones
\* after that are dropped (each dropped integer digit counts a power of ten).
\* Without a fraction and without overflow the number is an integer;
\* otherwise the significand is converted to f64 and scaled by the power of
\* ten, one rounding each.
SignificandLen[digits \in Text] ==
  MaxOf({0} \cup {n \in 1..Len(digits) :
                    Cmp[Strip[DigitValues[SubSeq(digits, 1, n)]], U64Max] <= 0})

f64_scale_pow10[f \in F64s, exponent \in Int] ==
  IF IsZero[f.m] THEN f
  ELSE IF exponent >= 0 THEN NearestF64[f.neg, F64IntegerDigits[f] \o Zeros(exponent), 0]
  ELSE NearestF64[f.neg, F64IntegerDigits[f], 0 - exponent]

f64_from_parts[neg \in BOOLEAN, significand \in Digits, exponent \in Int] ==
  f64_scale_pow10[NearestF64[neg, significand, 0], exponent]

json_parse_number[s \in Text] ==
  LET neg == Len(s) > 0 /\ s[1] = "-"
      body == IF neg THEN SubSeq(s, 2, Len(s)) ELSE s
      dot == Find[body, "."]
      int == SubSeq(body, 1, dot - 1)
      frac == SubSeq(body, dot + 1, Len(body))
      wellFormed ==
        /\ Len(int) > 0
        /\ \A i \in 1..Len(int) : IsDigitChar(int[i])
        /\ \A i \in 1..Len(frac) : IsDigitChar(frac[i])
        /\ Len(int) > 1 => int[1] # "0"
        /\ dot <= Len(body) => Len(frac) > 0
      used == SignificandLen[int \o frac]
      significand == Strip[DigitValues[SubSeq(int \o frac, 1, used)]]
  IN IF ~wellFormed THEN Err("syntax")
     ELSE IF dot > Len(body) /\ used = Len(int) /\ ~(neg /\ IsZero[significand])
       THEN Ok(JInt(neg, significand))
     ELSE Ok(JFloat(f64_from_parts[neg, significand, Len(int) - used]))

\* f64::deserialize: any JSON number, an integer converted to the nearest
\* double.
deserialize_f64(j) ==
  IF j.t # "num" THEN Err("invalid_type")
  ELSE IF j.n = "int" THEN Ok(NearestF64[j.neg, j.d, 0])
  ELSE Ok(j.f)

(***************************************************************************)
(* Difficulty.                                                             *)
(***************************************************************************)
\* BigUint::from_str: a non-empty string of decimal digits.
BigUint_from_str[s \in Text] ==
  IF Len(s) = 0 \/ \E i \in 1..Len(s) : ~IsDigitChar(s[i]) THEN Err("parse_biguint")
  ELSE Ok(Strip[DigitValues[s]])

\* s.split('.').nth(0)
BeforeDot[s \in Text] == SubSeq(s, 1, Find[s, "."] - 1)

\* A body whose error would name the part that was parsed, not the number.
difficulty_of_string_naming_part[s \in Text] ==
  LET r == BigUint_from_str[BeforeDot[s]] IN
  IF r.ok THEN r ELSE Err(<<"error parsing difficulty: ", BeforeDot[s]>>)

\* The body of deserialize_difficulty once the f64 is read: print it, cut it
\* at the point, read the integer.
difficulty_of_string[s \in Text] ==
  LET r == BigUint_from_str[BeforeDot[s]] IN
  IF r.ok THEN r ELSE Err(<<"error parsing difficulty: ", s>>)

\* deserialize_difficulty with the body that names the part.
deserialize_difficulty_naming_part(j) ==
  LET f == deserialize_f64(j) IN
  IF ~f.ok THEN f ELSE difficulty_of_string_naming_part[f64_to_string[f.v]]

deserialize_difficulty(j) ==
  LET f == deserialize_f64(j) IN
  IF ~f.ok THEN f ELSE difficulty_of_string[f64_to_string[f.v]]

(***************************************************************************)
(* Amounts: bitcoin::util::amount::serde::as_btc and as_btc::opt over      *)
(* Amount (u64 satoshis) and SignedAmount (i64 satoshis).  An amount is a  *)
(* sign and the digits of the number of satoshis.                          *)
(***************************************************************************)
Sat(neg, d) == [neg |-> neg, d |-> d]

\* The number of decimals of the BTC denomination.
BtcDecimals == 8

\* Amount::to_string_in(Denomination::Bitcoin): always eight decimals.
to_string_in_btc(a) ==
  LET real == IF Len(a.d) < BtcDecimals THEN Zeros(BtcDecimals - Len(a.d)) \o a.d ELSE a.d
      n == Len(real)
  IN (IF a.neg THEN <<"-">> ELSE <<>>)
       \o (IF n = BtcDecimals THEN <<"0">> ELSE DigitChars[SubSeq(real, 1, n - BtcDecimals)])
       \o <<".">>
       \o DigitChars[SubSeq(real, n - BtcDecimals + 1, n)]

\* Amount::to_float_in(Denomination::Bitcoin)
to_float_in_btc(a) == f64_from_str[to_string_in_btc(a)]

\* parse_signed_to_satoshi for the BTC denomination.
parse_signed_to_satoshi[s \in Text] ==
  LET neg == Len(s) > 0 /\ s[1] = "-"
      body == IF neg THEN SubSeq(s, 2, Len(s)) ELSE s
      dot == Find[body, "."]
      int == SubSeq(body, 1, dot - 1)
      frac == SubSeq(body, dot + 1, Len(body))
  IN IF Len(s) = 0 \/ (neg /\ Len(s) = 1) THEN Err("invalid_format")
     ELSE IF \E i \in 1..Len(int) : ~IsDigitChar(int[i]) THEN Err("invalid_character")
     ELSE IF \E i \in 1..Len(frac) : frac[i] = "." THEN Err("invalid_format")
     ELSE IF \E i \in 1..Len(frac) : ~IsDigitChar(frac[i]) THEN Err("invalid_character")
     ELSE IF Len(frac) > BtcDecimals THEN Err("too_precise")
     ELSE LET value == Strip[DigitValues[int \o frac] \o Zeros(BtcDecimals - Len(frac))] IN
          IF Cmp[value, U64Max] > 0 THEN Err("too_big")
          ELSE Ok(Sat(neg, value))

\* Amount::from_str_in and SignedAmount::from_str_in
from_str_in_btc[signed \in BOOLEAN, s \in Text] ==
  LET r == parse_signed_to_satoshi[s] IN
  IF ~r.ok THEN r
  ELSE IF ~signed /\ r.v.neg THEN Err("negative")
  ELSE IF Cmp[r.v.d, I64Max] > 0 THEN Err("too_big")
  ELSE Ok(Sat(r.v.neg /\ ~IsZero[r.v.d], r.v.d))

\* Every digit of the double, as a formatter that does not shorten prints it.
f64_to_string_exact[f \in F64s] ==
  IF IsZero[f.m] THEN (IF f.neg THEN <<"-", "0">> ELSE <<"0">>)
  ELSE FormatDecimal[f.neg, ExactDigits[f]]

\* Amount::from_float_in and SignedAmount::from_float_in
from_float_in_btc_exact(signed, f) ==
  IF ~signed /\ f.neg /\ ~IsZero[f.m] THEN Err("negative")
  ELSE from_str_in_btc[signed, f64_to_string_exact[f]]
\* Amount::from_float_in for a SignedAmount too: no negative values.
from_float_in_btc_unsigned(signed, f) ==
  IF f.neg /\ ~IsZero[f.m] THEN Err("negative")
  ELSE from_str_in_btc[FALSE, f64_to_string[f]]
from_float_in_btc(signed, f) ==
  IF ~signed /\ f.neg /\ ~IsZero[f.m] THEN Err("negative")
  ELSE from_str_in_btc[signed, f64_to_string[f]]

\* as_btc::serialize and as_btc::deserialize
as_btc_serialize(a) == JFloat(to_float_in_btc(a))
as_btc_deserialize(signed, j) ==
  LET f == deserialize_f64(j) IN
  IF ~f.ok THEN f ELSE from_float_in_btc(signed, f.v)

\* as_btc::opt::serialize and as_btc::opt::deserialize
as_btc_opt_serialize(a) == IF a.some THEN as_btc_serialize(a.v) ELSE JNull
as_btc_opt_deserialize(signed, j) ==
  LET r == as_btc_deserialize(signed, j) IN
  IF ~r.ok THEN r ELSE Ok(Some(r.v))

(***************************************************************************)
(* Inputs of the number adapters.                                          *)
(***************************************************************************)
MaxAmountDigits == 16

\* 21 * 10^14 satoshis, the 21 million BTC there will ever be.
MaxMoney == <<2,1>> \o Zeros(14)

LeadingDigits == {1, 2, 9}

AmountCandidates ==
  {<<0>>, MaxMoney, Dec[MaxMoney]}
    \cup UNION {{<<a>> \o Zeros(j), Inc[<<a>> \o Zeros(j)], Dec[<<a>> \o Zeros(j)],
                 [i \in 1..(j + 1) |-> IF i = 1 THEN a ELSE (a + 3 * i) % 10]} :
                  a \in LeadingDigits, j \in 0..(MaxAmountDigits - 1)}

AmountSamples == {d \in AmountCandidates : Cmp[d, MaxMoney] <= 0}

\* The adapters in use: as_btc over Amount and over SignedAmount, as_btc::opt
\* over Amount and over SignedAmount.
AmountKinds ==
  {[signed |-> sg, opt |-> o] : sg \in BOOLEAN, o \in BOOLEAN}

AmountValues(kind) ==
  {Sat(FALSE, d) : d \in AmountSamples}
    \cup (IF kind.signed THEN {Sat(TRUE, d) : d \in AmountSamples \ {<<0>>}} ELSE {})

amount_serialize(kind, v) ==
  IF kind.opt THEN as_btc_opt_serialize(v) ELSE as_btc_serialize(v)
amount_deserialize(kind, j) ==
  IF kind.opt THEN as_btc_opt_deserialize(kind.signed, j)
  ELSE as_btc_deserialize(kind.signed, j)

AmountTexts ==
  {<<"1",".","0","0","0","0","0","0","0","0">>,
   <<"-","0",".","0","0","6","1","3","5","8","0">>,
   <<"-","0",".","0","0","0","0","0","2","5","8">>,
   <<"4","4",".","9","8","8","3","4","4","6","1">>,
   <<"2",".","0","0","0","0","0","0","0","0">>,
   <<"0">>,
   <<"1">>,
   <<"0",".","1">>,
   <<"0",".","1","2","3","4","5","6","7","8","9">>,
   <<"2","1","0","0","0","0","0","0",".","0","0","0","0","0","0","0","0">>,
   <<"-","1">>,
   <<"0",".","0","0","0","0","0","0","0","1","5">>}

DifficultyIntegers ==
  {<<"0">>,
   <<"1">>,
   <<"1","2","3">>,
   <<"1","0","0","0","0","0","0","0">>,
   <<"4","8","1","7","4","3","7","4">>,
   <<"9","0","6","4","1","5","9","8","2","6","4","9","1">>,
   <<"4","5","0","3","5","9","9","6","2","7","3","7","0","4","9","7">>,
   <<"9","0","0","7","1","9","9","2","5","4","7","4","0","9","9","2">>,
   <<"9","0","0","7","1","9","9","2","5","4","7","4","0","9","9","3">>,
   <<"1","8","0","1","4","3","9","8","5","0","9","4","8","1","9","8","5">>}
DifficultyFractions ==
  {<<"0">>,
   <<"5">>,
   <<"4","1">>,
   <<"1","2","3","4","5">>,
   <<"0","0","0","0","0","0","0","1">>,
   <<"4","4","1","2","2","7","7","3">>,
   <<"9","9","9","9","9","9","9","9">>,
   <<"9","9","9","9","9","9","9","9","9","9","9","9","9","9","9","9">>,
   <<"9","9","9","9","9","9","9","9","9","9","9","9","9","9","9","9","9">>}
DifficultyTexts ==
  DifficultyIntegers
    \cup {x \o <<".">> \o y : x \in DifficultyIntegers, y \in DifficultyFractions}

(***************************************************************************)
(* The number adapters' calls.                                             *)
(***************************************************************************)
AmountSerialize ==
  \E kind \in AmountKinds : \E a \in AmountValues(kind) :
    /\ op = "init"
    /\ op' = "amount_serialize"
    /\ arg' = [kind |-> kind, value |-> IF kind.opt THEN Some(a) ELSE a]
    /\ wire' = amount_serialize(kind, IF kind.opt THEN Some(a) ELSE a)
    /\ out' = Nothing
    /\ prev' = Nothing

\* Decode what the last serialize call produced.
AmountDeserializeEncoded ==
  /\ op = "amount_serialize"
  /\ op' = "amount_roundtrip"
  /\ out' = amount_deserialize(arg.kind, wire)
  /\ UNCHANGED <<arg, wire, prev>>

\* Decode a number read from JSON text.
AmountDeserialize ==
  \E kind \in AmountKinds : \E s \in AmountTexts : \E j \in {json_parse_number[s]} :
    /\ op = "init"
    /\ j.ok
    /\ op' = "amount_deserialize"
    /\ arg' = [kind |-> kind, text |-> s]
    /\ wire' = j.v
    /\ out' = amount_deserialize(kind, j.v)
    /\ prev' = Nothing

DifficultyDeserialize ==
  \E s \in DifficultyTexts : \E j \in {json_parse_number[s]} :
    /\ op = "init"
    /\ j.ok
    /\ op' = "difficulty_deserialize"
    /\ arg' = [text |-> s]
    /\ wire' = j.v
    /\ out' = deserialize_difficulty(j.v)
    /\ prev' = Nothing

\* Numbers below zero, each with the string that f64 prints for it: no
\* fraction that is zero, and the nearest f64 of an integer beyond 2^53.
NegativeDifficulties ==
  {[text |-> <<"-">> \o x \o <<".">> \o y, printed |-> <<"-">> \o x \o <<".">> \o y] :
     x \in {<<"0">>, <<"1">>, <<"1","2","3">>, <<"1","0","0","0","0","0","0","0">>},
     y \in {<<"5">>, <<"1","2","3","4","5">>, <<"0","0","0","0","0","0","0","1">>}}
    \cup {[text |-> <<"-">> \o x \o y, printed |-> <<"-">> \o x] :
            x \in {<<"0">>, <<"1">>, <<"1","2","3">>, <<"4","8","1","7","4","3","7","4">>,
                   <<"9","0","6","4","1","5","9","8","2","6","4","9","1">>},
            y \in {<<>>, <<".","0">>, <<".","0","0">>}}
    \cup {[text |-> <<"-","9","0","0","7","1","9","9","2","5","4","7","4","0","9","9","3">>,
           printed |-> <<"-","9","0","0","7","1","9","9","2","5","4","7","4","0","9","9","2">>]}

DifficultyDeserializeNegative ==
  \E n \in NegativeDifficulties : \E j \in {json_parse_number[n.text]} :
    /\ op = "init"
    /\ j.ok
    /\ op' = "difficulty_deserialize_negative"
    /\ arg' = n
    /\ wire' = j.v
    /\ out' = deserialize_difficulty(j.v)
    /\ prev' = Nothing

NumNext ==
  \/ AmountSerialize
  \/ AmountDeserializeEncoded
  \/ AmountDeserialize
  \/ DifficultyDeserialize
  \/ DifficultyDeserializeNegative
  \/ Return

SpecNum == InitIdle /\ [][NumNext]_vars

(***************************************************************************)
(* Enums.  Each derives Serialize and/or Deserialize under a rename_all    *)
(* rule; the variants are listed under their Rust names and the wire tag   *)
(* of a variant is what the rule makes of its name.                        *)
(***************************************************************************)

Bip125Replaceable ==
  [rename_all |-> "lowercase", de |-> TRUE,
   variants |-> <<
     <<"Y","e","s">>,
     <<"N","o">>,
     <<"U","n","k","n","o","w","n">>>>]

GetTransactionResultDetailCategory ==
  [rename_all |-> "lowercase", de |-> TRUE,
   variants |-> <<
     <<"S","e","n","d">>,
     <<"R","e","c","e","i","v","e">>,
     <<"G","e","n","e","r","a","t","e">>>>]

Bip9SoftforkStatus ==
  [rename_all |-> "snake_case", de |-> TRUE,
   variants |-> <<
     <<"D","e","f","i","n","e","d">>,
     <<"S","t","a","r","t","e","d">>,
     <<"L","o","c","k","e","d","I","n">>,
     <<"A","c","t","i","v","e">>,
     <<"F","a","i","l","e","d">>>>]

SoftforkType ==
  [rename_all |-> "lowercase", de |-> TRUE,
   variants |-> <<
     <<"B","u","r","i","e","d">>,
     <<"B","i","p","9">>>>]

ScriptPubkeyType ==
  [rename_all |-> "lowercase", de |-> TRUE,
   variants |-> <<
     <<"N","o","n","s","t","a","n","d","a","r","d">>,
     <<"P","u","b","k","e","y">>,
     <<"P","u","b","k","e","y","H","a","s","h">>,
     <<"S","c","r","i","p","t","H","a","s","h">>,
     <<"M","u","l","t","i","S","i","g">>,
     <<"N","u","l","l","D","a","t","a">>,
     <<"W","i","t","n","e","s","s","_","v","0","_","K","e","y","H","a","s","h">>,
     <<"W","i","t","n","e","s","s","_","v","0","_","S","c","r","i","p","t","H","a","s","h">>,
     <<"W","i","t","n","e","s","s","_","U","n","k","n","o","w","n">>>>]

GetAddressInfoResultLabelPurpose ==
  [rename_all |-> "lowercase", de |-> TRUE,
   variants |-> <<
     <<"S","e","n","d">>,
     <<"R","e","c","e","i","v","e">>>>]

EstimateMode ==
  [rename_all |-> "UPPERCASE", de |-> TRUE,
   variants |-> <<
     <<"U","n","s","e","t">>,
     <<"E","c","o","n","o","m","i","c","a","l">>,
     <<"C","o","n","s","e","r","v","a","t","i","v","e">>>>]

AddressType ==
  [rename_all |-> "kebab-case", de |-> FALSE,
   variants |-> <<
     <<"L","e","g","a","c","y">>,
     <<"P","2","s","h","S","e","g","w","i","t">>,
     <<"B","e","c","h","3","2">>>>]

EnumNames ==
  {"Bip125Replaceable",
   "GetTransactionResultDetailCategory",
   "Bip9SoftforkStatus",
   "SoftforkType",
   "ScriptPubkeyType",
   "GetAddressInfoResultLabelPurpose",
   "EstimateMode",
   "AddressType"}

Enum(name) ==
  CASE name = "Bip125Replaceable" -> Bip125Replaceable
    [] name = "GetTransactionResultDetailCategory" -> GetTransactionResultDetailCategory
    [] name = "Bip9SoftforkStatus" -> Bip9SoftforkStatus
    [] name = "SoftforkType" -> SoftforkType
    [] name = "ScriptPubkeyType" -> ScriptPubkeyType
    [] name = "GetAddressInfoResultLabelPurpose" -> GetAddressInfoResultLabelPurpose
    [] name = "EstimateMode" -> EstimateMode
    [] name = "AddressType" -> AddressType

\* serde_derive's RenameRule::apply_to_variant for the rules in use.
RECURSIVE snake_case_from(_, _)
snake_case_from(variant, i) ==
  IF i > Len(variant) THEN <<>>
  ELSE (IF i > 1 /\ is_uppercase(variant[i]) THEN <<"_">> ELSE <<>>)
         \o <<to_ascii_lowercase_char(variant[i])>>
         \o snake_case_from(variant, i + 1)

snake_case(variant) == snake_case_from(variant, 1)

kebab_case(variant) ==
  LET snake == snake_case(variant) IN
  [i \in 1..Len(snake) |-> IF snake[i] = "_" THEN "-" ELSE snake[i]]

apply_to_variant_unrenamed(rule, variant) == variant
apply_to_variant(rule, variant) ==
  CASE rule = "lowercase" -> to_ascii_lowercase(variant)
    [] rule = "UPPERCASE" -> to_ascii_uppercase(variant)
    [] rule = "snake_case" -> snake_case(variant)
    [] rule = "kebab-case" -> kebab_case(variant)
    [] OTHER -> variant

\* The wire tag of variant i of enum e.
WireTag(e, i) == apply_to_variant(e.rename_all, e.variants[i])

\* derive(Serialize) on a unit variant: the tag as a JSON string.
serialize_enum(e, i) == JStr(WireTag(e, i))

\* derive(Deserialize): the variant whose tag the string is, exactly.
deserialize_enum_ignoring_case(e, j) ==
  IF j.t # "str" THEN Err("invalid_type")
  ELSE IF \E i \in 1..Len(e.variants) :
            to_ascii_lowercase(WireTag(e, i)) = to_ascii_lowercase(j.s)
    THEN Ok(CHOOSE i \in 1..Len(e.variants) :
            to_ascii_lowercase(WireTag(e, i)) = to_ascii_lowercase(j.s))
    ELSE Err("unknown_variant")
deserialize_enum(e, j) ==
  IF j.t # "str" THEN Err("invalid_type")
  ELSE IF \E i \in 1..Len(e.variants) : WireTag(e, i) = j.s
    THEN Ok(CHOOSE i \in 1..Len(e.variants) : WireTag(e, i) = j.s)
    ELSE Err("unknown_variant")

(***************************************************************************)
(* Inputs of the enum decoders: every tag and every Rust variant name of   *)
(* every enum, in four letter cases, shortened, lengthened and with the    *)
(* other word separator.                                                   *)
(***************************************************************************)
Range(f) == {f[i] : i \in DOMAIN f}

Capitalized(s) ==
  [i \in 1..Len(s) |-> IF i = 1 THEN to_ascii_uppercase_char(s[i]) ELSE s[i]]

OtherSeparator(s) ==
  [i \in 1..Len(s) |-> IF s[i] = "_" THEN "-" ELSE IF s[i] = "-" THEN "_" ELSE s[i]]

TagLikeStrings ==
  UNION {Range(Enum(n).variants) \cup {WireTag(Enum(n), i) : i \in 1..Len(Enum(n).variants)} :
           n \in EnumNames}

EnumProbes ==
  UNION {{s, to_ascii_lowercase(s), to_ascii_uppercase(s), Capitalized(s),
          OtherSeparator(s), SubSeq(s, 1, Len(s) - 1), s \o <<"s">>} :
           s \in TagLikeStrings}

(***************************************************************************)
(* The enum calls.                                                         *)
(***************************************************************************)
EnumSerialize ==
  \E n \in EnumNames : \E i \in 1..Len(Enum(n).variants) :
    /\ op = "init"
    /\ op' = "enum_serialize"
    /\ arg' = [enum |-> n, variant |-> i]
    /\ wire' = serialize_enum(Enum(n), i)
    /\ out' = Nothing
    /\ prev' = Nothing

EnumDeserialize ==
  \E n \in EnumNames : \E s \in EnumProbes :
    /\ op = "init"
    /\ Enum(n).de
    /\ op' = "enum_deserialize"
    /\ arg' = [enum |-> n]
    /\ wire' = JStr(s)
    /\ out' = deserialize_enum(Enum(n), JStr(s))
    /\ prev' = Nothing

\* Decode what the last serialize call produced.
EnumDeserializeEncoded ==
  /\ op = "enum_serialize"
  /\ Enum(arg.enum).de
  /\ op' = "enum_roundtrip"
  /\ out' = deserialize_enum(Enum(arg.enum), wire)
  /\ UNCHANGED <<arg, wire, prev>>

EnumNext ==
  \/ EnumSerialize
  \/ EnumDeserialize
  \/ EnumDeserializeEncoded
  \/ Return

SpecEnum == InitIdle /\ [][EnumNext]_vars

(***************************************************************************)
(* Structs.  A struct derives Serialize and/or Deserialize; its schema is  *)
(* the list of its fields with their serde attributes.  A struct value is  *)
(* the tuple of its fields' values in declaration order, an Option is      *)
(* None or Some(v), and a JSON object is a function from keys to values.   *)
(***************************************************************************)
\* The types of the fields, by how serde reads and writes them.
T_uint == [k |-> "uint"]
T_int == [k |-> "int"]
T_f64 == [k |-> "f64"]
T_bool == [k |-> "bool"]
T_str == [k |-> "str"]
T_value == [k |-> "value"]
T_bytes == [k |-> "bytes"]
T_biguint == [k |-> "biguint"]
T_script == [k |-> "script"]
T_pair == [k |-> "pair"]
T_scriptpubkey == [k |-> "scriptpubkey"]
T_hash(len, backward) == [k |-> "hash", len |-> len, backward |-> backward]
T_opaque(name) == [k |-> "opaque", name |-> name]
T_amount(signed) == [k |-> "amount", signed |-> signed]
T_vec(ty) == [k |-> "vec", of |-> ty]
T_map(ty) == [k |-> "map", of |-> ty]
T_struct(name) == [k |-> "struct", name |-> name]
T_enum(name) == [k |-> "enum", name |-> name]

\* The hashes: Txid and BlockHash are 32 bytes and are written in hex from
\* the last byte to the first; the hash160 identifier is 20 bytes, written
\* from the first.
Sha256Len == 32
Hash160Len == 20
T_sha256d == T_hash(Sha256Len, TRUE)
T_hash160 == T_hash(Hash160Len, FALSE)

\* A field: its Rust name, whether it is an Option, the type (inside the
\* Option), and its #[serde(...)] attributes.
NoAttrs ==
  [rename |-> <<>>, default |-> FALSE, with |-> "", deserialize_with |-> "",
   skip_serializing_if |-> "", flatten |-> FALSE]
Field(name, option, ty, attrs) ==
  [name |-> name, option |-> option, ty |-> ty] @@ attrs @@ NoAttrs

(***************************************************************************)
(* The schemas: every struct of the crate that derives Serialize or        *)
(* Deserialize, field by field.                                            *)
(***************************************************************************)
LoadWalletResult ==
  [rename_all |-> "", de |-> TRUE, ser |-> TRUE,
   fields |-> <<
     Field(<<"n","a","m","e">>, FALSE, T_str,
           NoAttrs),
     Field(<<"w","a","r","n","i","n","g">>, TRUE, T_str,
           NoAttrs)>>]

GetBlockResult ==
  [rename_all |-> "camelCase", de |-> TRUE, ser |-> TRUE,
   fields |-> <<
     Field(<<"h","a","s","h">>, FALSE, T_sha256d,
           NoAttrs),
     Field(<<"c","o","n","f","i","r","m","a","t","i","o","n","s">>, FALSE, T_uint,
           NoAttrs),
     Field(<<"s","i","z","e">>, FALSE, T_uint,
           NoAttrs),
     Field(<<"s","t","r","i","p","p","e","d","s","i","z","e">>, TRUE, T_uint,
           NoAttrs),
     Field(<<"w","e","i","g","h","t">>, FALSE, T_uint,
           NoAttrs),
     Field(<<"h","e","i","g","h","t">>, FALSE, T_uint,
           NoAttrs),
     Field(<<"v","e","r","s","i","o","n">>, FALSE, T_uint,
           NoAttrs),
     Field(<<"v","e","r","s","i","o","n","_","h","e","x">>, TRUE, T_bytes,
           [default |-> TRUE, with |-> "serde_hex::opt"]),
     Field(<<"m","e","r","k","l","e","r","o","o","t">>, FALSE, T_sha256d,
           NoAttrs),
     Field(<<"t","x">>, FALSE, T_vec(T_sha256d),
           NoAttrs),
     Field(<<"t","i","m","e">>, FALSE, T_uint,
           NoAttrs),
     Field(<<"m","e","d","i","a","n","t","i","m","e">>, TRUE, T_uint,
           NoAttrs),
     Field(<<"n","o","n","c","e">>, FALSE, T_uint,
           NoAttrs),
     Field(<<"b","i","t","s">>, FALSE, T_str,
           NoAttrs),
     Field(<<"d","i","f","f","i","c","u","l","t","y">>, FALSE, T_biguint,
           [deserialize_with |-> "deserialize_difficulty"]),
     Field(<<"c","h","a","i","n","w","o","r","k">>, FALSE, T_bytes,
           [with |-> "serde_hex"]),
     Field(<<"n","_","t","x">>, FALSE, T_uint,
           NoAttrs),
     Field(<<"p","r","e","v","i","o","u","s","b","l","o","c","k","h","a","s","h">>, TRUE, T_sha256d,
           NoAttrs),
     Field(<<"n","e","x","t","b","l","o","c","k","h","a","s","h">>, TRUE, T_sha256d,
           NoAttrs)>>]

GetBlockHeaderResult ==
  [rename_all |-> "camelCase", de |-> TRUE, ser |-> TRUE,
   fields |-> <<
     Field(<<"h","a","s","h">>, FALSE, T_sha256d,
           NoAttrs),
     Field(<<"c","o","n","f","i","r","m","a","t","i","o","n","s">>, FALSE, T_uint,
           NoAttrs),
     Field(<<"h","e","i","g","h","t">>, FALSE, T_uint,
           NoAttrs),
     Field(<<"v","e","r","s","i","o","n">>, FALSE, T_uint,
           NoAttrs),
     Field(<<"v","e","r","s","i","o","n","_","h","e","x">>, TRUE, T_bytes,
           [default |-> TRUE, with |-> "serde_hex::opt"]),
     Field(<<"m","e","r","k","l","e","r","o","o","t">>, FALSE, T_sha256d,
           NoAttrs),
     Field(<<"t","i","m","e">>, FALSE, T_uint,
           NoAttrs),
     Field(<<"m","e","d","i","a","n","t","i","m","e">>, TRUE, T_uint,
           NoAttrs),
     Field(<<"n","o","n","c","e">>, FALSE, T_uint,
           NoAttrs),
     Field(<<"b","i","t","s">>, FALSE, T_str,
           NoAttrs),
     Field(<<"d","i","f","f","i","c","u","l","t","y">>, FALSE, T_biguint,
           [deserialize_with |-> "deserialize_difficulty"]),
     Field(<<"c","h","a","i","n","w","o","r","k">>, FALSE, T_bytes,
           [with |-> "serde_hex"]),
     Field(<<"n","_","t","x">>, FALSE, T_uint,
           NoAttrs),
     Field(<<"p","r","e","v","i","o","u","s","b","l","o","c","k","h","a","s","h">>, TRUE, T_sha256d,
           NoAttrs),
     Field(<<"n","e","x","t","b","l","o","c","k","h","a","s","h">>, TRUE, T_sha256d,
           NoAttrs)>>]

GetMiningInfoResult ==
  [rename_all |-> "camelCase", de |-> TRUE, ser |-> TRUE,
   fields |-> <<
     Field(<<"b","l","o","c","k","s">>, FALSE, T_uint,
           NoAttrs),
     Field(<<"c","u","r","r","e","n","t","b","l","o","c","k","w","e","i","g","h","t">>, TRUE, T_uint,
           NoAttrs),
     Field(<<"c","u","r","r","e","n","t","b","l","o","c","k","t","x">>, TRUE, T_uint,
           NoAttrs),
     Field(<<"d","i","f","f","i","c","u","l","t","y">>, FALSE, T_biguint,
           [deserialize_with |-> "deserialize_difficulty"]),
     Field(<<"n","e","t","w","o","r","k","h","a","s","h","p","s">>, FALSE, T_f64,
           NoAttrs),
     Field(<<"p","o","o","l","e","d","t","x">>, FALSE, T_uint,
           NoAttrs),
     Field(<<"c","h","a","i","n">>, FALSE, T_str,
           NoAttrs),
     Field(<<"w","a","r","n","i","n","g","s">>, FALSE, T_str,
           NoAttrs)>>]

GetRawTransactionResultVinScriptSig ==
  [rename_all |-> "camelCase", de |-> TRUE, ser |-> TRUE,
   fields |-> <<
     Field(<<"a","s","m">>, FALSE, T_str,
           NoAttrs),
     Field(<<"h","e","x">>, FALSE, T_bytes,
           [with |-> "serde_hex"])>>]

GetRawTransactionResultVin ==
  [rename_all |-> "camelCase", de |-> TRUE, ser |-> TRUE,
   fields |-> <<
     Field(<<"s","e","q","u","e","n","c","e">>, FALSE, T_uint,
           NoAttrs),
     Field(<<"c","o","i","n","b","a","s","e">>, TRUE, T_bytes,
           [default |-> TRUE, with |-> "serde_hex::opt"]),
     Field(<<"t","x","i","d">>, TRUE, T_sha256d,
           NoAttrs),
     Field(<<"v","o","u","t">>, TRUE, T_uint,
           NoAttrs),
     Field(<<"s","c","r","i","p","t","_","s","i","g">>, TRUE, T_struct("GetRawTransactionResultVinScriptSig"),
           NoAttrs),
     Field(<<"t","x","i","n","w","i","t","n","e","s","s">>, TRUE, T_vec(T_bytes),
           [default |-> TRUE, deserialize_with |-> "deserialize_hex_array_opt"])>>]

GetRawTransactionResultVoutScriptPubKey ==
  [rename_all |-> "camelCase", de |-> TRUE, ser |-> TRUE,
   fields |-> <<
     Field(<<"a","s","m">>, FALSE, T_str,
           NoAttrs),
     Field(<<"h","e","x">>, FALSE, T_bytes,
           [with |-> "serde_hex"]),
     Field(<<"r","e","q","_","s","i","g","s">>, TRUE, T_uint,
           NoAttrs),
     Field(<<"t","y","p","e","_">>, TRUE, T_enum("ScriptPubkeyType"),
           [rename |-> <<"t","y","p","e">>]),
     Field(<<"a","d","d","r","e","s","s","e","s">>, TRUE, T_vec(T_opaque("Address")),
           NoAttrs)>>]

GetRawTransactionResultVout ==
  [rename_all |-> "camelCase", de |-> TRUE, ser |-> TRUE,
   fields |-> <<
     Field(<<"v","a","l","u","e">>, FALSE, T_amount(FALSE),
           [with |-> "as_btc"]),
     Field(<<"n">>, FALSE, T_uint,
           NoAttrs),
     Field(<<"s","c","r","i","p","t","_","p","u","b","_","k","e","y">>, FALSE, T_struct("GetRawTransactionResultVoutScriptPubKey"),
           NoAttrs)>>]

GetRawTransactionResult ==
  [rename_all |-> "camelCase", de |-> TRUE, ser |-> TRUE,
   fields |-> <<
     Field(<<"i","n","_","a","c","t","i","v","e","_","c","h","a","i","n">>, TRUE, T_bool,
           [rename |-> <<"i","n","_","a","c","t","i","v","e","_","c","h","a","i","n">>]),
     Field(<<"h","e","x">>, FALSE, T_bytes,
           [with |-> "serde_hex"]),
     Field(<<"t","x","i","d">>, FALSE, T_sha256d,
           NoAttrs),
     Field(<<"h","a","s","h">>, FALSE, T_sha256d,
           NoAttrs),
     Field(<<"s","i","z","e">>, FALSE, T_uint,
           NoAttrs),
     Field(<<"v","s","i","z","e">>, FALSE, T_uint,
           NoAttrs),
     Field(<<"v","e","r","s","i","o","n">>, FALSE, T_uint,
           NoAttrs),
     Field(<<"l","o","c","k","t","i","m","e">>, FALSE, T_uint,
           NoAttrs),
     Field(<<"v","i","n">>, FALSE, T_vec(T_struct("GetRawTransactionResultVin")),
           NoAttrs),
     Field(<<"v","o","u","t">>, FALSE, T_vec(T_struct("GetRawTransactionResultVout")),
           NoAttrs),
     Field(<<"b","l","o","c","k","h","a","s","h">>, TRUE, T_sha256d,
           NoAttrs),
     Field(<<"c","o","n","f","i","r","m","a","t","i","o","n","s">>, TRUE, T_uint,
           NoAttrs),
     Field(<<"t","i","m","e">>, TRUE, T_uint,
           NoAttrs),
     Field(<<"b","l","o","c","k","t","i","m","e">>, TRUE, T_uint,
           NoAttrs)>>]

GetBlockFilterResult ==
  [rename_all |-> "", de |-> TRUE, ser |-> TRUE,
   fields |-> <<
     Field(<<"h","e","a","d","e","r">>, FALSE, T_sha256d,
           NoAttrs),
     Field(<<"f","i","l","t","e","r">>, FALSE, T_bytes,
           [with |-> "serde_hex"])>>]

GetTransactionResultDetail ==
  [rename_all |-> "", de |-> TRUE, ser |-> FALSE,
   fields |-> <<
     Field(<<"a","d","d","r","e","s","s">>, FALSE, T_opaque("Address"),
           NoAttrs),
     Field(<<"c","a","t","e","g","o","r","y">>, FALSE, T_enum("GetTransactionResultDetailCategory"),
           NoAttrs),
     Field(<<"a","m","o","u","n","t">>, FALSE, T_amount(TRUE),
           [with |-> "as_btc"]),
     Field(<<"l","a","b","e","l">>, TRUE, T_str,
           NoAttrs),
     Field(<<"v","o","u","t">>, FALSE, T_uint,
           NoAttrs),
     Field(<<"f","e","e">>, TRUE, T_amount(TRUE),
           [default |-> TRUE, with |-> "as_btc::opt"]),
     Field(<<"a","b","a","n","d","o","n","e","d">>, TRUE, T_bool,
           NoAttrs)>>]

WalletTxInfo ==
  [rename_all |-> "", de |-> TRUE, ser |-> FALSE,
   fields |-> <<
     Field(<<"c","o","n","f","i","r","m","a","t","i","o","n","s">>, FALSE, T_int,
           NoAttrs),
     Field(<<"b","l","o","c","k","h","a","s","h">>, TRUE, T_sha256d,
           NoAttrs),
     Field(<<"b","l","o","c","k","i","n","d","e","x">>, TRUE, T_uint,
           NoAttrs),
     Field(<<"b","l","o","c","k","t","i","m","e">>, TRUE, T_uint,
           NoAttrs),
     Field(<<"t","x","i","d">>, FALSE, T_sha256d,
           NoAttrs),
     Field(<<"t","i","m","e">>, FALSE, T_uint,
           NoAttrs),
     Field(<<"t","i","m","e","r","e","c","e","i","v","e","d">>, FALSE, T_uint,
           NoAttrs),
     Field(<<"b","i","p","1","2","5","_","r","e","p","l","a","c","e","a","b","l","e">>, FALSE, T_enum("Bip125Replaceable"),
           [rename |-> <<"b","i","p","1","2","5","-","r","e","p","l","a","c","e","a","b","l","e">>])>>]

GetTransactionResult ==
  [rename_all |-> "", de |-> TRUE, ser |-> FALSE,
   fields |-> <<
     Field(<<"i","n","f","o">>, FALSE, T_struct("WalletTxInfo"),
           [flatten |-> TRUE]),
     Field(<<"a","m","o","u","n","t">>, FALSE, T_amount(TRUE),
           [with |-> "as_btc"]),
     Field(<<"f","e","e">>, TRUE, T_amount(TRUE),
           [default |-> TRUE, with |-> "as_btc::opt"]),
     Field(<<"d","e","t","a","i","l","s">>, FALSE, T_vec(T_struct("GetTransactionResultDetail")),
           NoAttrs),
     Field(<<"h","e","x">>, FALSE, T_bytes,
           [with |-> "serde_hex"])>>]

ListTransactionResult ==
  [rename_all |-> "", de |-> TRUE, ser |-> FALSE,
   fields |-> <<
     Field(<<"i","n","f","o">>, FALSE, T_struct("WalletTxInfo"),
           [flatten |-> TRUE]),
     Field(<<"d","e","t","a","i","l">>, FALSE, T_struct("GetTransactionResultDetail"),
           [flatten |-> TRUE]),
     Field(<<"t","r","u","s","t","e","d">>, TRUE, T_bool,
           NoAttrs),
     Field(<<"c","o","m","m","e","n","t">>, TRUE, T_str,
           NoAttrs)>>]

GetTxOutResult ==
  [rename_all |-> "camelCase", de |-> TRUE, ser |-> TRUE,
   fields |-> <<
     Field(<<"b","e","s","t","b","l","o","c","k">>, FALSE, T_sha256d,
           NoAttrs),
     Field(<<"c","o","n","f","i","r","m","a","t","i","o","n","s">>, FALSE, T_uint,
           NoAttrs),
     Field(<<"v","a","l","u","e">>, FALSE, T_amount(FALSE),
           [with |-> "as_btc"]),
     Field(<<"s","c","r","i","p","t","_","p","u","b","_","k","e","y">>, FALSE, T_struct("GetRawTransactionResultVoutScriptPubKey"),
           NoAttrs),
     Field(<<"c","o","i","n","b","a","s","e">>, FALSE, T_bool,
           NoAttrs)>>]

ListUnspentQueryOptions ==
  [rename_all |-> "camelCase", de |-> TRUE, ser |-> TRUE,
   fields |-> <<
     Field(<<"m","i","n","i","m","u","m","_","a","m","o","u","n","t">>, TRUE, T_amount(FALSE),
           [default |-> TRUE, with |-> "as_btc::opt"]),
     Field(<<"m","a","x","i","m","u","m","_","a","m","o","u","n","t">>, TRUE, T_amount(FALSE),
           [default |-> TRUE, with |-> "as_btc::opt"]),
     Field(<<"m","a","x","i","m","u","m","_","c","o","u","n","t">>, TRUE, T_uint,
           [skip_serializing_if |-> "Option::is_none"]),
     Field(<<"m","a","x","i","m","u","m","_","s","u","m","_","a","m","o","u","n","t">>, TRUE, T_amount(FALSE),
           [default |-> TRUE, with |-> "as_btc::opt"])>>]

ListUnspentResultEntry ==
  [rename_all |-> "camelCase", de |-> TRUE, ser |-> TRUE,
   fields |-> <<
     Field(<<"t","x","i","d">>, FALSE, T_sha256d,
           NoAttrs),
     Field(<<"v","o","u","t">>, FALSE, T_uint,
           NoAttrs),
     Field(<<"a","d","d","r","e","s","s">>, TRUE, T_opaque("Address"),
           NoAttrs),
     Field(<<"l","a","b","e","l">>, TRUE, T_str,
           NoAttrs),
     Field(<<"r","e","d","e","e","m","_","s","c","r","i","p","t">>, TRUE, T_script,
           NoAttrs),
     Field(<<"w","i","t","n","e","s","s","_","s","c","r","i","p","t">>, TRUE, T_script,
           NoAttrs),
     Field(<<"s","c","r","i","p","t","_","p","u","b","_","k","e","y">>, FALSE, T_script,
           NoAttrs),
     Field(<<"a","m","o","u","n","t">>, FALSE, T_amount(FALSE),
           [with |-> "as_btc"]),
     Field(<<"c","o","n","f","i","r","m","a","t","i","o","n","s">>, FALSE, T_uint,
           NoAttrs),
     Field(<<"s","p","e","n","d","a","b","l","e">>, FALSE, T_bool,
           NoAttrs),
     Field(<<"s","o","l","v","a","b","l","e">>, FALSE, T_bool,
           NoAttrs),
     Field(<<"d","e","s","c","r","i","p","t","o","r">>, TRUE, T_str,
           [rename |-> <<"d","e","s","c">>]),
     Field(<<"s","a","f","e">>, FALSE, T_bool,
           NoAttrs)>>]

ListReceivedByAddressResult ==
  [rename_all |-> "camelCase", de |-> TRUE, ser |-> TRUE,
   fields |-> <<
     Field(<<"i","n","v","o","l","v","e","d","_","w","a","t","c","h","_","o","n","l","y">>, FALSE, T_bool,
           [rename |-> <<"i","n","v","o","l","v","e","s","W","a","t","c","h","o","n","l","y">>]),
     Field(<<"a","d","d","r","e","s","s">>, FALSE, T_opaque("Address"),
           NoAttrs),
     Field(<<"a","m","o","u","n","t">>, FALSE, T_amount(FALSE),
           [with |-> "as_btc"]),
     Field(<<"c","o","n","f","i","r","m","a","t","i","o","n","s">>, FALSE, T_uint,
           NoAttrs),
     Field(<<"l","a","b","e","l">>, FALSE, T_str,
           NoAttrs),
     Field(<<"t","x","i","d","s">>, FALSE, T_vec(T_sha256d),
           NoAttrs)>>]

SignRawTransactionResultError ==
  [rename_all |-> "camelCase", de |-> TRUE, ser |-> TRUE,
   fields |-> <<
     Field(<<"t","x","i","d">>, FALSE, T_sha256d,
           NoAttrs),
     Field(<<"v","o","u","t">>, FALSE, T_uint,
           NoAttrs),
     Field(<<"s","c","r","i","p","t","_","s","i","g">>, FALSE, T_script,
           NoAttrs),
     Field(<<"s","e","q","u","e","n","c","e">>, FALSE, T_uint,
           NoAttrs),
     Field(<<"e","r","r","o","r">>, FALSE, T_str,
           NoAttrs)>>]

SignRawTransactionResult ==
  [rename_all |-> "camelCase", de |-> TRUE, ser |-> TRUE,
   fields |-> <<
     Field(<<"h","e","x">>, FALSE, T_bytes,
           [with |-> "serde_hex"]),
     Field(<<"c","o","m","p","l","e","t","e">>, FALSE, T_bool,
           NoAttrs),
     Field(<<"e","r","r","o","r","s">>, TRUE, T_vec(T_struct("SignRawTransactionResultError")),
           NoAttrs)>>]

TestMempoolAccept ==
  [rename_all |-> "", de |-> TRUE, ser |-> TRUE,
   fields |-> <<
     Field(<<"t","x","i","d">>, FALSE, T_str,
           NoAttrs),
     Field(<<"a","l","l","o","w","e","d">>, FALSE, T_bool,
           NoAttrs),
     Field(<<"r","e","j","e","c","t","_","r","e","a","s","o","n">>, TRUE, T_str,
           [rename |-> <<"r","e","j","e","c","t","-","r","e","a","s","o","n">>])>>]

Bip9SoftforkStatistics ==
  [rename_all |-> "", de |-> TRUE, ser |-> TRUE,
   fields |-> <<
     Field(<<"p","e","r","i","o","d">>, FALSE, T_uint,
           NoAttrs),
     Field(<<"t","h","r","e","s","h","o","l","d">>, FALSE, T_uint,
           NoAttrs),
     Field(<<"e","l","a","p","s","e","d">>, FALSE, T_uint,
           NoAttrs),
     Field(<<"c","o","u","n","t">>, FALSE, T_uint,
           NoAttrs),
     Field(<<"p","o","s","s","i","b","l","e">>, FALSE, T_bool,
           NoAttrs)>>]

Bip9SoftforkInfo ==
  [rename_all |-> "", de |-> TRUE, ser |-> TRUE,
   fields |-> <<
     Field(<<"s","t","a","t","u","s">>, FALSE, T_enum("Bip9SoftforkStatus"),
           NoAttrs),
     Field(<<"b","i","t">>, FALSE, T_uint,
           NoAttrs),
     Field(<<"s","t","a","r","t","_","t","i","m","e">>, FALSE, T_uint,
           [rename |-> <<"s","t","a","r","t","T","i","m","e">>]),
     Field(<<"t","i","m","e","o","u","t">>, FALSE, T_uint,
           NoAttrs),
     Field(<<"s","i","n","c","e">>, FALSE, T_uint,
           NoAttrs),
     Field(<<"s","t","a","t","i","s","t","i","c","s">>, FALSE, T_struct("Bip9SoftforkStatistics"),
           NoAttrs)>>]

Softfork ==
  [rename_all |-> "", de |-> TRUE, ser |-> TRUE,
   fields |-> <<
     Field(<<"t","y","p","e","_">>, FALSE, T_enum("SoftforkType"),
           [rename |-> <<"t","y","p","e">>]),
     Field(<<"b","i","p","9">>, TRUE, T_struct("Bip9SoftforkInfo"),
           NoAttrs),
     Field(<<"h","e","i","g","h","t">>, TRUE, T_uint,
           NoAttrs),
     Field(<<"a","c","t","i","v","e">>, FALSE, T_bool,
           NoAttrs)>>]

GetAddressInfoResultEmbedded ==
  [rename_all |-> "", de |-> TRUE, ser |-> TRUE,
   fields |-> <<
     Field(<<"a","d","d","r","e","s","s">>, FALSE, T_opaque("Address"),
           NoAttrs),
     Field(<<"s","c","r","i","p","t","_","p","u","b","_","k","e","y">>, FALSE, T_script,
           [rename |-> <<"s","c","r","i","p","t","P","u","b","K","e","y">>]),
     Field(<<"i","s","_","s","c","r","i","p","t">>, TRUE, T_bool,
           [rename |-> <<"i","s","_","s","c","r","i","p","t">>]),
     Field(<<"i","s","_","w","i","t","n","e","s","s">>, TRUE, T_bool,
           [rename |-> <<"i","s","_","w","i","t","n","e","s","s">>]),
     Field(<<"w","i","t","n","e","s","s","_","v","e","r","s","i","o","n">>, TRUE, T_uint,
           NoAttrs),
     Field(<<"w","i","t","n","e","s","s","_","p","r","o","g","r","a","m">>, FALSE, T_bytes,
           [with |-> "serde_hex"]),
     Field(<<"s","c","r","i","p","t">>, TRUE, T_enum("ScriptPubkeyType"),
           NoAttrs),
     Field(<<"h","e","x">>, TRUE, T_bytes,
           [with |-> "serde_hex::opt"]),
     Field(<<"p","u","b","k","e","y","s">>, TRUE, T_vec(T_opaque("PublicKey")),
           NoAttrs),
     Field(<<"n","_","s","i","g","n","a","t","u","r","e","s","_","r","e","q","u","i","r","e","d">>, TRUE, T_uint,
           [rename |-> <<"s","i","g","s","r","e","q","u","i","r","e","d">>]),
     Field(<<"p","u","b","k","e","y">>, TRUE, T_opaque("PublicKey"),
           NoAttrs),
     Field(<<"i","s","_","c","o","m","p","r","e","s","s","e","d">>, FALSE, T_bool,
           [rename |-> <<"i","s","_","c","o","m","p","r","e","s","s","e","d">>]),
     Field(<<"l","a","b","e","l">>, FALSE, T_str,
           NoAttrs),
     Field(<<"h","d","_","k","e","y","_","p","a","t","h">>, TRUE, T_opaque("DerivationPath"),
           [rename |-> <<"h","d","k","e","y","p","a","t","h">>]),
     Field(<<"h","d","_","s","e","e","d","_","i","d">>, TRUE, T_hash160,
           [rename |-> <<"h","d","s","e","e","d","i","d">>]),
     Field(<<"l","a","b","e","l","s">>, FALSE, T_vec(T_struct("GetAddressInfoResultLabel")),
           NoAttrs)>>]

GetAddressInfoResultLabel ==
  [rename_all |-> "", de |-> TRUE, ser |-> TRUE,
   fields |-> <<
     Field(<<"n","a","m","e">>, FALSE, T_str,
           NoAttrs),
     Field(<<"p","u","r","p","o","s","e">>, FALSE, T_enum("GetAddressInfoResultLabelPurpose"),
           NoAttrs)>>]

GetAddressInfoResult ==
  [rename_all |-> "", de |-> TRUE, ser |-> TRUE,
   fields |-> <<
     Field(<<"a","d","d","r","e","s","s">>, FALSE, T_opaque("Address"),
           NoAttrs),
     Field(<<"s","c","r","i","p","t","_","p","u","b","_","k","e","y">>, FALSE, T_script,
           [rename |-> <<"s","c","r","i","p","t","P","u","b","K","e","y">>]),
     Field(<<"i","s","_","m","i","n","e">>, TRUE, T_bool,
           [rename |-> <<"i","s","_","m","i","n","e">>]),
     Field(<<"i","s","_","w","a","t","c","h","o","n","l","y">>, TRUE, T_bool,
           [rename |-> <<"i","s","_","w","a","t","c","h","o","n","l","y">>]),
     Field(<<"i","s","_","s","c","r","i","p","t">>, TRUE, T_bool,
           [rename |-> <<"i","s","_","s","c","r","i","p","t">>]),
     Field(<<"i","s","_","w","i","t","n","e","s","s">>, TRUE, T_bool,
           [rename |-> <<"i","s","_","w","i","t","n","e","s","s">>]),
     Field(<<"w","i","t","n","e","s","s","_","v","e","r","s","i","o","n">>, TRUE, T_uint,
           NoAttrs),
     Field(<<"w","i","t","n","e","s","s","_","p","r","o","g","r","a","m">>, FALSE, T_bytes,
           [with |-> "serde_hex"]),
     Field(<<"s","c","r","i","p","t">>, TRUE, T_enum("ScriptPubkeyType"),
           NoAttrs),
     Field(<<"h","e","x">>, TRUE, T_bytes,
           [with |-> "serde_hex::opt"]),
     Field(<<"p","u","b","k","e","y","s">>, TRUE, T_vec(T_opaque("PublicKey")),
           NoAttrs),
     Field(<<"n","_","s","i","g","n","a","t","u","r","e","s","_","r","e","q","u","i","r","e","d">>, TRUE, T_uint,
           [rename |-> <<"s","i","g","s","r","e","q","u","i","r","e","d">>]),
     Field(<<"p","u","b","k","e","y">>, TRUE, T_opaque("PublicKey"),
           NoAttrs),
     Field(<<"e","m","b","e","d","d","e","d">>, TRUE, T_struct("GetAddressInfoResultEmbedded"),
           NoAttrs),
     Field(<<"i","s","_","c","o","m","p","r","e","s","s","e","d">>, FALSE, T_bool,
           [rename |-> <<"i","s","_","c","o","m","p","r","e","s","s","e","d">>]),
     Field(<<"l","a","b","e","l">>, FALSE, T_str,
           NoAttrs),
     Field(<<"t","i","m","e","s","t","a","m","p">>, TRUE, T_uint,
           NoAttrs),
     Field(<<"h","d","_","k","e","y","_","p","a","t","h">>, TRUE, T_opaque("DerivationPath"),
           [rename |-> <<"h","d","k","e","y","p","a","t","h">>]),
     Field(<<"h","d","_","s","e","e","d","_","i","d">>, TRUE, T_hash160,
           [rename |-> <<"h","d","s","e","e","d","i","d">>]),
     Field(<<"l","a","b","e","l","s">>, FALSE, T_vec(T_struct("GetAddressInfoResultLabel")),
           NoAttrs)>>]

GetBlockchainInfoResult ==
  [rename_all |-> "", de |-> TRUE, ser |-> TRUE,
   fields |-> <<
     Field(<<"c","h","a","i","n">>, FALSE, T_str,
           NoAttrs),
     Field(<<"b","l","o","c","k","s">>, FALSE, T_uint,
           NoAttrs),
     Field(<<"h","e","a","d","e","r","s">>, FALSE, T_uint,
           NoAttrs),
     Field(<<"b","e","s","t","b","l","o","c","k","h","a","s","h">>, FALSE, T_sha256d,
           NoAttrs),
     Field(<<"d","i","f","f","i","c","u","l","t","y">>, FALSE, T_f64,
           NoAttrs),
     Field(<<"m","e","d","i","a","n","t","i","m","e">>, FALSE, T_uint,
           NoAttrs),
     Field(<<"v","e","r","i","f","i","c","a","t","i","o","n","p","r","o","g","r","e","s","s">>, FALSE, T_f64,
           NoAttrs),
     Field(<<"i","n","i","t","i","a","l","b","l","o","c","k","d","o","w","n","l","o","a","d">>, FALSE, T_bool,
           NoAttrs),
     Field(<<"c","h","a","i","n","w","o","r","k">>, FALSE, T_bytes,
           [with |-> "serde_hex"]),
     Field(<<"s","i","z","e","_","o","n","_","d","i","s","k">>, FALSE, T_uint,
           NoAttrs),
     Field(<<"p","r","u","n","e","d">>, FALSE, T_bool,
           NoAttrs),
     Field(<<"p","r","u","n","e","h","e","i","g","h","t">>, TRUE, T_uint,
           NoAttrs),
     Field(<<"a","u","t","o","m","a","t","i","c","_","p","r","u","n","i","n","g">>, TRUE, T_bool,
           NoAttrs),
     Field(<<"p","r","u","n","e","_","t","a","r","g","e","t","_","s","i","z","e">>, TRUE, T_uint,
           NoAttrs),
     Field(<<"s","o","f","t","f","o","r","k","s">>, FALSE, T_map(T_struct("Softfork")),
           NoAttrs),
     Field(<<"w","a","r","n","i","n","g","s">>, FALSE, T_str,
           NoAttrs)>>]

ImportMultiRequest ==
  [rename_all |-> "", de |-> FALSE, ser |-> TRUE,
   fields |-> <<
     Field(<<"t","i","m","e","s","t","a","m","p">>, FALSE, T_uint,
           NoAttrs),
     Field(<<"d","e","s","c","r","i","p","t","o","r">>, TRUE, T_str,
           [rename |-> <<"d","e","s","c">>, skip_serializing_if |-> "Option::is_none"]),
     Field(<<"s","c","r","i","p","t","_","p","u","b","k","e","y">>, TRUE, T_scriptpubkey,
           [rename |-> <<"s","c","r","i","p","t","P","u","b","K","e","y">>, skip_serializing_if |-> "Option::is_none"]),
     Field(<<"r","e","d","e","e","m","_","s","c","r","i","p","t">>, TRUE, T_script,
           [rename |-> <<"r","e","d","e","e","m","s","c","r","i","p","t">>, skip_serializing_if |-> "Option::is_none"]),
     Field(<<"w","i","t","n","e","s","s","_","s","c","r","i","p","t">>, TRUE, T_script,
           [rename |-> <<"w","i","t","n","e","s","s","s","c","r","i","p","t">>, skip_serializing_if |-> "Option::is_none"]),
     Field(<<"p","u","b","k","e","y","s">>, FALSE, T_vec(T_opaque("PublicKey")),
           [skip_serializing_if |-> "<[_]>::is_empty"]),
     Field(<<"k","e","y","s">>, FALSE, T_vec(T_opaque("PrivateKey")),
           [skip_serializing_if |-> "<[_]>::is_empty"]),
     Field(<<"r","a","n","g","e">>, TRUE, T_pair,
           [skip_serializing_if |-> "Option::is_none"]),
     Field(<<"i","n","t","e","r","n","a","l">>, TRUE, T_bool,
           [skip_serializing_if |-> "Option::is_none"]),
     Field(<<"w","a","t","c","h","o","n","l","y">>, TRUE, T_bool,
           [skip_serializing_if |-> "Option::is_none"]),
     Field(<<"l","a","b","e","l">>, TRUE, T_str,
           [skip_serializing_if |-> "Option::is_none"]),
     Field(<<"k","e","y","p","o","o","l">>, TRUE, T_bool,
           [skip_serializing_if |-> "Option::is_none"])>>]

ImportMultiOptions ==
  [rename_all |-> "", de |-> TRUE, ser |-> TRUE,
   fields |-> <<
     Field(<<"r","e","s","c","a","n">>, TRUE, T_bool,
           [skip_serializing_if |-> "Option::is_none"])>>]

ImportMultiResultError ==
  [rename_all |-> "", de |-> TRUE, ser |-> TRUE,
   fields |-> <<
     Field(<<"c","o","d","e">>, FALSE, T_int,
           NoAttrs),
     Field(<<"m","e","s","s","a","g","e">>, FALSE, T_str,
           NoAttrs)>>]

ImportMultiResult ==
  [rename_all |-> "", de |-> TRUE, ser |-> TRUE,
   fields |-> <<
     Field(<<"s","u","c","c","e","s","s">>, FALSE, T_bool,
           NoAttrs),
     Field(<<"w","a","r","n","i","n","g","s">>, FALSE, T_vec(T_str),
           [default |-> TRUE]),
     Field(<<"e","r","r","o","r">>, TRUE, T_struct("ImportMultiResultError"),
           NoAttrs)>>]

RejectStatus ==
  [rename_all |-> "", de |-> TRUE, ser |-> TRUE,
   fields |-> <<
     Field(<<"s","t","a","t","u","s">>, FALSE, T_bool,
           NoAttrs)>>]

GetPeerInfoResult ==
  [rename_all |-> "", de |-> TRUE, ser |-> TRUE,
   fields |-> <<
     Field(<<"i","d">>, FALSE, T_uint,
           NoAttrs),
     Field(<<"a","d","d","r">>, FALSE, T_str,
           NoAttrs),
     Field(<<"a","d","d","r","b","i","n","d">>, FALSE, T_str,
           NoAttrs),
     Field(<<"a","d","d","r","l","o","c","a","l">>, FALSE, T_str,
           NoAttrs),
     Field(<<"s","e","r","v","i","c","e","s">>, FALSE, T_str,
           NoAttrs),
     Field(<<"r","e","l","a","y","t","x","e","s">>, FALSE, T_bool,
           NoAttrs),
     Field(<<"l","a","s","t","s","e","n","d">>, FALSE, T_uint,
           NoAttrs),
     Field(<<"l","a","s","t","r","e","c","v">>, FALSE, T_uint,
           NoAttrs),
     Field(<<"b","y","t","e","s","s","e","n","t">>, FALSE, T_uint,
           NoAttrs),
     Field(<<"b","y","t","e","s","r","e","c","v">>, FALSE, T_uint,
           NoAttrs),
     Field(<<"c","o","n","n","t","i","m","e">>, FALSE, T_uint,
           NoAttrs),
     Field(<<"t","i","m","e","o","f","f","s","e","t">>, FALSE, T_uint,
           NoAttrs),
     Field(<<"p","i","n","g","t","i","m","e">>, FALSE, T_uint,
           NoAttrs),
     Field(<<"m","i","n","p","i","n","g">>, FALSE, T_uint,
           NoAttrs),
     Field(<<"p","i","n","g","w","a","i","t">>, FALSE, T_uint,
           NoAttrs),
     Field(<<"v","e","r","s","i","o","n">>, FALSE, T_uint,
           NoAttrs),
     Field(<<"s","u","b","v","e","r">>, FALSE, T_str,
           NoAttrs),
     Field(<<"i","n","b","o","u","n","d">>, FALSE, T_bool,
           NoAttrs),
     Field(<<"a","d","d","n","o","d","e">>, FALSE, T_bool,
           NoAttrs),
     Field(<<"s","t","a","r","t","i","n","g","h","e","i","g","h","t">>, FALSE, T_uint,
           NoAttrs),
     Field(<<"b","a","n","s","c","o","r","e">>, FALSE, T_int,
           NoAttrs),
     Field(<<"s","y","n","c","e","d","_","h","e","a","d","e","r","s">>, FALSE, T_uint,
           NoAttrs),
     Field(<<"s","y","n","c","e","d","_","b","l","o","c","k","s">>, FALSE, T_uint,
           NoAttrs),
     Field(<<"i","n","f","l","i","g","h","t">>, FALSE, T_vec(T_uint),
           NoAttrs),
     Field(<<"w","h","i","t","e","l","i","s","t","e","d">>, FALSE, T_bool,
           NoAttrs),
     Field(<<"b","y","t","e","s","s","e","n","t","_","p","e","r","_","m","s","g">>, FALSE, T_value,
           NoAttrs),
     Field(<<"b","y","t","e","s","r","e","c","v","_","p","e","r","_","m","s","g">>, FALSE, T_value,
           NoAttrs)>>]

EstimateSmartFeeResult ==
  [rename_all |-> "", de |-> TRUE, ser |-> TRUE,
   fields |-> <<
     Field(<<"f","e","e","r","a","t","e">>, TRUE, T_value,
           NoAttrs),
     Field(<<"e","r","r","o","r","s">>, TRUE, T_vec(T_str),
           NoAttrs),
     Field(<<"b","l","o","c","k","s">>, FALSE, T_int,
           NoAttrs)>>]

BlockRef ==
  [rename_all |-> "", de |-> TRUE, ser |-> TRUE,
   fields |-> <<
     Field(<<"h","a","s","h">>, FALSE, T_sha256d,
           NoAttrs),
     Field(<<"h","e","i","g","h","t">>, FALSE, T_uint,
           NoAttrs)>>]

GetDescriptorInfoResult ==
  [rename_all |-> "", de |-> TRUE, ser |-> TRUE,
   fields |-> <<
     Field(<<"d","e","s","c","r","i","p","t","o","r">>, FALSE, T_str,
           NoAttrs),
     Field(<<"c","h","e","c","k","s","u","m">>, FALSE, T_str,
           NoAttrs),
     Field(<<"i","s","_","r","a","n","g","e">>, FALSE, T_bool,
           [rename |-> <<"i","s","r","a","n","g","e">>]),
     Field(<<"i","s","_","s","o","l","v","a","b","l","e">>, FALSE, T_bool,
           [rename |-> <<"i","s","s","o","l","v","a","b","l","e">>]),
     Field(<<"h","a","s","_","p","r","i","v","a","t","e","_","k","e","y","s">>, FALSE, T_bool,
           [rename |-> <<"h","a","s","p","r","i","v","a","t","e","k","e","y","s">>])>>]

WalletCreateFundedPsbtResult ==
  [rename_all |-> "", de |-> TRUE, ser |-> TRUE,
   fields |-> <<
     Field(<<"p","s","b","t">>, FALSE, T_str,
           NoAttrs),
     Field(<<"f","e","e">>, FALSE, T_amount(FALSE),
           [with |-> "as_btc"]),
     Field(<<"c","h","a","n","g","e","_","p","o","s","i","t","i","o","n">>, FALSE, T_int,
           [rename |-> <<"c","h","a","n","g","e","p","o","s">>])>>]

WalletCreateFundedPsbtOptions ==
  [rename_all |-> "", de |-> TRUE, ser |-> TRUE,
   fields |-> <<
     Field(<<"c","h","a","n","g","e","_","a","d","d","r","e","s","s">>, TRUE, T_opaque("Address"),
           [rename |-> <<"c","h","a","n","g","e","A","d","d","r","e","s","s">>, skip_serializing_if |-> "Option::is_none"]),
     Field(<<"c","h","a","n","g","e","_","p","o","s","i","t","i","o","n">>, TRUE, T_uint,
           [rename |-> <<"c","h","a","n","g","e","P","o","s","i","t","i","o","n">>, skip_serializing_if |-> "Option::is_none"]),
     Field(<<"c","h","a","n","g","e","_","t","y","p","e">>, TRUE, T_str,
           [rename |-> <<"c","h","a","n","g","e","T","y","p","e">>, skip_serializing_if |-> "Option::is_none"]),
     Field(<<"i","n","c","l","u","d","e","_","w","a","t","c","h","i","n","g">>, TRUE, T_bool,
           [rename |-> <<"i","n","c","l","u","d","e","W","a","t","c","h","i","n","g">>, skip_serializing_if |-> "Option::is_none"]),
     Field(<<"l","o","c","k","_","u","n","s","p","e","n","t">>, TRUE, T_bool,
           [rename |-> <<"l","o","c","k","U","n","s","p","e","n","t","s">>, skip_serializing_if |-> "Option::is_none"]),
     Field(<<"f","e","e","_","r","a","t","e">>, TRUE, T_amount(FALSE),
           [rename |-> <<"f","e","e","R","a","t","e">>, with |-> "as_btc::opt", skip_serializing_if |-> "Option::is_none"]),
     Field(<<"s","u","b","t","r","a","c","t","_","f","e","e","_","f","r","o","m","_","o","u","t","p","u","t","s">>, FALSE, T_vec(T_uint),
           [rename |-> <<"s","u","b","t","r","a","c","t","F","e","e","F","r","o","m","O","u","t","p","u","t","s">>, skip_serializing_if |-> "Vec::is_empty"]),
     Field(<<"r","e","p","l","e","a","c","e","a","b","l","e">>, TRUE, T_bool,
           [skip_serializing_if |-> "Option::is_none"]),
     Field(<<"c","o","n","f","_","t","a","r","g","e","t">>, TRUE, T_uint,
           [skip_serializing_if |-> "Option::is_none"]),
     Field(<<"e","s","t","i","m","a","t","e","_","m","o","d","e">>, TRUE, T_str,
           [skip_serializing_if |-> "Option::is_none"])>>]

FinalizePsbtResult ==
  [rename_all |-> "", de |-> TRUE, ser |-> TRUE,
   fields |-> <<
     Field(<<"p","s","b","t">>, TRUE, T_str,
           NoAttrs),
     Field(<<"h","e","x">>, TRUE, T_str,
           NoAttrs),
     Field(<<"c","o","m","p","l","e","t","e">>, FALSE, T_bool,
           NoAttrs)>>]

CreateRawTransactionInput ==
  [rename_all |-> "camelCase", de |-> FALSE, ser |-> TRUE,
   fields |-> <<
     Field(<<"t","x","i","d">>, FALSE, T_sha256d,
           NoAttrs),
     Field(<<"v","o","u","t">>, FALSE, T_uint,
           NoAttrs),
     Field(<<"s","e","q","u","e","n","c","e">>, TRUE, T_uint,
           [skip_serializing_if |-> "Option::is_none"])>>]

FundRawTransactionOptions ==
  [rename_all |-> "camelCase", de |-> FALSE, ser |-> TRUE,
   fields |-> <<
     Field(<<"c","h","a","n","g","e","_","a","d","d","r","e","s","s">>, TRUE, T_opaque("Address"),
           [skip_serializing_if |-> "Option::is_none"]),
     Field(<<"c","h","a","n","g","e","_","p","o","s","i","t","i","o","n">>, TRUE, T_uint,
           [skip_serializing_if |-> "Option::is_none"]),
     Field(<<"c","h","a","n","g","e","_","t","y","p","e">>, TRUE, T_enum("AddressType"),
           [rename |-> <<"c","h","a","n","g","e","_","t","y","p","e">>, skip_serializing_if |-> "Option::is_none"]),
     Field(<<"i","n","c","l","u","d","e","_","w","a","t","c","h","i","n","g">>, TRUE, T_bool,
           [skip_serializing_if |-> "Option::is_none"]),
     Field(<<"l","o","c","k","_","u","n","s","p","e","n","t","s">>, TRUE, T_bool,
           [skip_serializing_if |-> "Option::is_none"]),
     Field(<<"f","e","e","_","r","a","t","e">>, TRUE, T_uint,
           [skip_serializing_if |-> "Option::is_none"]),
     Field(<<"s","u","b","t","r","a","c","t","_","f","e","e","_","f","r","o","m","_","o","u","t","p","u","t","s">>, TRUE, T_vec(T_uint),
           [skip_serializing_if |-> "Option::is_none"]),
     Field(<<"r","e","p","l","a","c","e","a","b","l","e">>, TRUE, T_bool,
           [skip_serializing_if |-> "Option::is_none"]),
     Field(<<"c","o","n","f","_","t","a","r","g","e","t">>, TRUE, T_uint,
           [rename |-> <<"c","o","n","f","_","t","a","r","g","e","t">>, skip_serializing_if |-> "Option::is_none"]),
     Field(<<"e","s","t","i","m","a","t","e","_","m","o","d","e">>, TRUE, T_enum("EstimateMode"),
           [rename |-> <<"e","s","t","i","m","a","t","e","_","m","o","d","e">>, skip_serializing_if |-> "Option::is_none"])>>]

FundRawTransactionResult ==
  [rename_all |-> "camelCase", de |-> TRUE, ser |-> FALSE,
   fields |-> <<
     Field(<<"h","e","x">>, FALSE, T_bytes,
           [with |-> "serde_hex"]),
     Field(<<"f","e","e">>, FALSE, T_amount(FALSE),
           [with |-> "as_btc"]),
     Field(<<"c","h","a","n","g","e","_","p","o","s","i","t","i","o","n">>, FALSE, T_int,
           [rename |-> <<"c","h","a","n","g","e","p","o","s">>])>>]

SignRawTransactionInput ==
  [rename_all |-> "camelCase", de |-> FALSE, ser |-> TRUE,
   fields |-> <<
     Field(<<"t","x","i","d">>, FALSE, T_sha256d,
           NoAttrs),
     Field(<<"v","o","u","t">>, FALSE, T_uint,
           NoAttrs),
     Field(<<"s","c","r","i","p","t","_","p","u","b","_","k","e","y">>, FALSE, T_script,
           NoAttrs),
     Field(<<"r","e","d","e","e","m","_","s","c","r","i","p","t">>, TRUE, T_script,
           [skip_serializing_if |-> "Option::is_none"]),
     Field(<<"a","m","o","u","n","t">>, TRUE, T_amount(FALSE),
           [default |-> TRUE, with |-> "as_btc::opt", skip_serializing_if |-> "Option::is_none"])>>]

SchemaNames ==
  {"LoadWalletResult",
   "GetBlockResult",
   "GetBlockHeaderResult",
   "GetMiningInfoResult",
   "GetRawTransactionResultVinScriptSig",
   "GetRawTransactionResultVin",
   "GetRawTransactionResultVoutScriptPubKey",
   "GetRawTransactionResultVout",
   "GetRawTransactionResult",
   "GetBlockFilterResult",
   "GetTransactionResultDetail",
   "WalletTxInfo",
   "GetTransactionResult",
   "ListTransactionResult",
   "GetTxOutResult",
   "ListUnspentQueryOptions",
   "ListUnspentResultEntry",
   "ListReceivedByAddressResult",
   "SignRawTransactionResultError",
   "SignRawTransactionResult",
   "TestMempoolAccept",
   "Bip9SoftforkStatistics",
   "Bip9SoftforkInfo",
   "Softfork",
   "GetAddressInfoResultEmbedded",
   "GetAddressInfoResultLabel",
   "GetAddressInfoResult",
   "GetBlockchainInfoResult",
   "ImportMultiRequest",
   "ImportMultiOptions",
   "ImportMultiResultError",
   "ImportMultiResult",
   "RejectStatus",
   "GetPeerInfoResult",
   "EstimateSmartFeeResult",
   "BlockRef",
   "GetDescriptorInfoResult",
   "WalletCreateFundedPsbtResult",
   "WalletCreateFundedPsbtOptions",
   "FinalizePsbtResult",
   "CreateRawTransactionInput",
   "FundRawTransactionOptions",
   "FundRawTransactionResult",
   "SignRawTransactionInput"}

Schema(name) ==
  CASE name = "LoadWalletResult" -> LoadWalletResult
    [] name = "GetBlockResult" -> GetBlockResult
    [] name = "GetBlockHeaderResult" -> GetBlockHeaderResult
    [] name = "GetMiningInfoResult" -> GetMiningInfoResult
    [] name = "GetRawTransactionResultVinScriptSig" -> GetRawTransactionResultVinScriptSig
    [] name = "GetRawTransactionResultVin" -> GetRawTransactionResultVin
    [] name = "GetRawTransactionResultVoutScriptPubKey" -> GetRawTransactionResultVoutScriptPubKey
    [] name = "GetRawTransactionResultVout" -> GetRawTransactionResultVout
    [] name = "GetRawTransactionResult" -> GetRawTransactionResult
    [] name = "GetBlockFilterResult" -> GetBlockFilterResult
    [] name = "GetTransactionResultDetail" -> GetTransactionResultDetail
    [] name = "WalletTxInfo" -> WalletTxInfo
    [] name = "GetTransactionResult" -> GetTransactionResult
    [] name = "ListTransactionResult" -> ListTransactionResult
    [] name = "GetTxOutResult" -> GetTxOutResult
    [] name = "ListUnspentQueryOptions" -> ListUnspentQueryOptions
    [] name = "ListUnspentResultEntry" -> ListUnspentResultEntry
    [] name = "ListReceivedByAddressResult" -> ListReceivedByAddressResult
    [] name = "SignRawTransactionResultError" -> SignRawTransactionResultError
    [] name = "SignRawTransactionResult" -> SignRawTransactionResult
    [] name = "TestMempoolAccept" -> TestMempoolAccept
    [] name = "Bip9SoftforkStatistics" -> Bip9SoftforkStatistics
    [] name = "Bip9SoftforkInfo" -> Bip9SoftforkInfo
    [] name = "Softfork" -> Softfork
    [] name = "GetAddressInfoResultEmbedded" -> GetAddressInfoResultEmbedded
    [] name = "GetAddressInfoResultLabel" -> GetAddressInfoResultLabel
    [] name = "GetAddressInfoResult" -> GetAddressInfoResult
    [] name = "GetBlockchainInfoResult" -> GetBlockchainInfoResult
    [] name = "ImportMultiRequest" -> ImportMultiRequest
    [] name = "ImportMultiOptions" -> ImportMultiOptions
    [] name = "ImportMultiResultError" -> ImportMultiResultError
    [] name = "ImportMultiResult" -> ImportMultiResult
    [] name = "RejectStatus" -> RejectStatus
    [] name = "GetPeerInfoResult" -> GetPeerInfoResult
    [] name = "EstimateSmartFeeResult" -> EstimateSmartFeeResult
    [] name = "BlockRef" -> BlockRef
    [] name = "GetDescriptorInfoResult" -> GetDescriptorInfoResult
    [] name = "WalletCreateFundedPsbtResult" -> WalletCreateFundedPsbtResult
    [] name = "WalletCreateFundedPsbtOptions" -> WalletCreateFundedPsbtOptions
    [] name = "FinalizePsbtResult" -> FinalizePsbtResult
    [] name = "CreateRawTransactionInput" -> CreateRawTransactionInput
    [] name = "FundRawTransactionOptions" -> FundRawTransactionOptions
    [] name = "FundRawTransactionResult" -> FundRawTransactionResult
    [] name = "SignRawTransactionInput" -> SignRawTransactionInput

(***************************************************************************)
(* The key of a field on the wire: its rename attribute, or else what the  *)
(* struct's rename_all rule makes of the Rust name.                        *)
(***************************************************************************)
\* RenameRule::PascalCase: drop each underscore and capitalise what follows.
pascal_case_from[field \in Text, i \in Nat] ==
  IF i > Len(field) THEN <<>>
  ELSE IF field[i] = "_" THEN pascal_case_from[field, i + 1]
  ELSE <<IF i = 1 \/ field[i - 1] = "_"
           THEN to_ascii_uppercase_char(field[i]) ELSE field[i]>>
         \o pascal_case_from[field, i + 1]

lowercase_first[s \in Text] ==
  [i \in 1..Len(s) |-> IF i = 1 THEN to_ascii_lowercase_char(s[i]) ELSE s[i]]

\* RenameRule::CamelCase
camel_case[field \in Text] == lowercase_first[pascal_case_from[field, 1]]

apply_to_field(rule, field) ==
  IF rule = "camelCase" THEN camel_case[field] ELSE field

WireKey(s, f) ==
  IF Len(f.rename) > 0 THEN f.rename ELSE apply_to_field(s.rename_all, f.name)

(***************************************************************************)
(* Decoding.                                                               *)
(***************************************************************************)
\* A collector that would keep the values that were read and drop the rest.
Collect_skipping_errors(r) ==
  LET good == SelectSeq(r, LAMBDA x : x.ok) IN
  Ok([i \in DOMAIN good |-> good[i].v])

\* The values of a sequence of results, or the first error among them.
Collect(r) ==
  LET bad == {i \in DOMAIN r : ~r[i].ok} IN
  IF bad = {} THEN Ok([i \in DOMAIN r |-> r[i].v]) ELSE r[MinOf(bad)]

\* The same for the results of the entries of a map.
CollectMap(r) ==
  LET bad == {k \in DOMAIN r : ~r[k].ok} IN
  IF bad = {} THEN Ok([k \in DOMAIN r |-> r[k].v]) ELSE r[CHOOSE k \in bad : TRUE]

\* serde_hex::opt::deserialize: reads a String, whatever the JSON value is.
serde_hex_opt_deserialize(j) ==
  LET r == serde_hex_deserialize(j) IN
  IF ~r.ok THEN r ELSE Ok(Some(r.v))

\* An adapter that would take an empty array for no array at all.
deserialize_hex_array_opt_empty_as_none(j) ==
  IF j.t # "arr" THEN Err("invalid_type")
  ELSE IF \E i \in 1..Len(j.a) : j.a[i].t # "str" THEN Err("invalid_type")
  ELSE LET res == Collect([i \in 1..Len(j.a) |-> from_hex(j.a[i].s)]) IN
       IF ~res.ok THEN res ELSE IF res.v = <<>> THEN Ok(None) ELSE Ok(Some(res.v))

\* deserialize_hex_array_opt: reads a Vec<String>, then each as hex.
deserialize_hex_array_opt(j) ==
  IF j.t # "arr" THEN Err("invalid_type")
  ELSE IF \E i \in 1..Len(j.a) : j.a[i].t # "str" THEN Err("invalid_type")
  ELSE LET res == Collect([i \in 1..Len(j.a) |-> from_hex(j.a[i].s)]) IN
       IF ~res.ok THEN res ELSE Ok(Some(res.v))

Reverse(b) == [i \in 1..Len(b) |-> b[Len(b) + 1 - i]]

\* A hash read from its hex string: as many bytes as the hash has, in the
\* order the hash is written in.
deserialize_hash(ty, j) ==
  LET r == serde_hex_deserialize(j) IN
  IF ~r.ok THEN r
  ELSE IF Len(r.v) # ty.len THEN Err("invalid_length")
  ELSE IF ty.backward THEN Ok(Reverse(r.v))
  ELSE r

serialize_hash(ty, v) ==
  JStr(to_hex(IF ty.backward THEN Reverse(v) ELSE v))

\* The strings the FromStr of Address, PublicKey, PrivateKey and
\* DerivationPath accept are stood for by one string each.
ValidStrings(name) ==
  CASE name = "Address" ->
         {<<"b","c","r","t","1","q">>}
    [] name = "PublicKey" ->
         {<<"0","2","7","9","b","e">>}
    [] name = "PrivateKey" ->
         {<<"c","V","t","4","o","7">>}
    [] name = "DerivationPath" ->
         {<<"m","/","0","'","/","1">>}

deserialize_opaque(name, j) ==
  IF j.t # "str" THEN Err("invalid_type")
  ELSE IF j.s \in ValidStrings(name) THEN Ok(j.s)
  ELSE Err("invalid_value")

deserialize_uint(j) ==
  IF j.t = "num" /\ j.n = "int" /\ ~j.neg THEN Ok(j.d) ELSE Err("invalid_type")

deserialize_int(j) ==
  IF j.t = "num" /\ j.n = "int" THEN Ok([neg |-> j.neg, d |-> j.d])
  ELSE Err("invalid_type")

deserialize_bool(j) ==
  IF j.t = "bool" THEN Ok(j.b) ELSE Err("invalid_type")

\* expr_is_missing of serde_derive: what a field is when its key is not in
\* the object.  `default` gives Default::default(); a field with a `with` or
\* `deserialize_with` function is an error; otherwise an Option is None and
\* anything else is an error.
default_value(f) == IF f.option THEN None ELSE <<>>

\* A decoder that would take every missing key without `default` for None.
missing_field_lenient(f) ==
  IF f.default THEN Ok(default_value(f)) ELSE Ok(None)
missing_field(f) ==
  IF f.default THEN Ok(default_value(f))
  ELSE IF f.with # "" \/ f.deserialize_with # "" THEN Err("missing_field")
  ELSE IF f.option THEN Ok(None)
  ELSE Err("missing_field")

RECURSIVE deserialize_type(_, _)
RECURSIVE deserialize_struct(_, _)

\* Deserialize for the type of a field.
deserialize_type(ty, j) ==
  CASE ty.k = "uint" -> deserialize_uint(j)
    [] ty.k = "int" -> deserialize_int(j)
    [] ty.k = "f64" -> deserialize_f64(j)
    [] ty.k = "bool" -> deserialize_bool(j)
    [] ty.k = "str" -> deserialize_String(j)
    [] ty.k = "value" -> Ok(j)
    [] ty.k = "hash" -> deserialize_hash(ty, j)
    [] ty.k = "script" -> serde_hex_deserialize(j)
    [] ty.k = "opaque" -> deserialize_opaque(ty.name, j)
    [] ty.k = "enum" -> deserialize_enum(Enum(ty.name), j)
    [] ty.k = "struct" -> deserialize_struct(Schema(ty.name), j)
    [] ty.k = "vec" ->
         IF j.t # "arr" THEN Err("invalid_type")
         ELSE Collect([i \in 1..Len(j.a) |-> deserialize_type(ty.of, j.a[i])])
    [] ty.k = "map" ->
         IF j.t # "obj" THEN Err("invalid_type")
         ELSE CollectMap([k \in DOMAIN j.o |-> deserialize_type(ty.of, j.o[k])])

\* Option<T>::deserialize: null is None, anything else is read as a T.
deserialize_option(ty, j) ==
  IF j.t = "null" THEN Ok(None)
  ELSE LET r == deserialize_type(ty, j) IN
       IF ~r.ok THEN r ELSE Ok(Some(r.v))

\* A field read from the value under its key: by its `with` or
\* `deserialize_with` function if it has one, by its type otherwise.
deserialize_field(f, j) ==
  CASE f.with = "serde_hex" -> serde_hex_deserialize(j)
    [] f.with = "serde_hex::opt" -> serde_hex_opt_deserialize(j)
    [] f.with = "as_btc" -> as_btc_deserialize(f.ty.signed, j)
    [] f.with = "as_btc::opt" -> as_btc_opt_deserialize(f.ty.signed, j)
    [] f.deserialize_with = "deserialize_difficulty" -> deserialize_difficulty(j)
    [] f.deserialize_with = "deserialize_hex_array_opt" -> deserialize_hex_array_opt(j)
    [] OTHER -> IF f.option THEN deserialize_option(f.ty, j)
                ELSE deserialize_type(f.ty, j)

\* A decoder without #[serde(flatten)]: every field, a struct too, is read
\* from the value under its own key.
field_from_map_nested(s, f, o) ==
  IF WireKey(s, f) \notin DOMAIN o THEN missing_field(f)
  ELSE IF f.flatten THEN deserialize_struct(Schema(f.ty.name), o[WireKey(s, f)])
  ELSE deserialize_field(f, o[WireKey(s, f)])

\* A field of struct s read from the object o: a flattened struct is read
\* from the same object; keys that belong to no field are ignored.
field_from_map(s, f, o) ==
  IF f.flatten THEN deserialize_struct(Schema(f.ty.name), JObj(o))
  ELSE IF WireKey(s, f) \in DOMAIN o THEN deserialize_field(f, o[WireKey(s, f)])
  ELSE missing_field(f)

\* The keys of the fields of s itself, its flattened structs aside.
FieldKeys(s) ==
  {WireKey(s, s.fields[i]) : i \in {i \in 1..Len(s.fields) : ~s.fields[i].flatten}}

\* The keys of the object o that name no field of s: the derived visitor
\* takes them for `__ignore` and skips their values, or keeps them for the
\* flattened structs.
unknown_fields(s, o) == (DOMAIN o) \ FieldKeys(s)

\* A struct that would refuse every key that names no field.
deny_unknown_fields_always(s) == TRUE

\* #[serde(deny_unknown_fields)]: no struct of the crate is declared with it.
deny_unknown_fields(s) == FALSE

\* derive(Deserialize) on a struct, given a JSON object.
deserialize_struct(s, j) ==
  IF j.t # "obj" THEN Err("invalid_type")
  ELSE IF deny_unknown_fields(s) /\ unknown_fields(s, j.o) # {} THEN Err("unknown_field")
  ELSE Collect([i \in 1..Len(s.fields) |-> field_from_map(s, s.fields[i], j.o)])

(***************************************************************************)
(* Encoding.                                                               *)
(***************************************************************************)
\* An encoder of optional hex that would have no answer for None.
serde_hex_opt_serialize_some_only(b) ==
  IF b.some THEN JStr(to_hex(b.v)) ELSE Err("none")

\* serde_hex::opt::serialize
serde_hex_opt_serialize(b) ==
  IF b.some THEN JStr(to_hex(b.v)) ELSE JNull

\* The decimal digits of a byte.
ByteDigits(n) ==
  IF n < 10 THEN <<n>>
  ELSE IF n < 100 THEN <<n \div 10, n % 10>>
  ELSE <<n \div 100, (n \div 10) % 10, n % 10>>

\* a - b for a >= b: digit by digit, a borrow where the rest of a is below
\* the rest of b.
Sub[a \in Digits, b \in Digits] ==
  LET n == Len(a)
      bb == Zeros(n - Len(b)) \o b
  IN Strip[[i \in 1..n |->
       (10 + a[i] - bb[i]
          - (IF i < n /\ CmpSameLen[SubSeq(a, i + 1, n), SubSeq(bb, i + 1, n)] < 0
               THEN 1 ELSE 0)) % 10]]

\* BigUint's serde form (num-bigint): the sequence of its base-2^32 digits,
\* least significant first; zero has none.
U32Bits == 32
biguint_digits[d \in Digits] ==
  IF IsZero[d] THEN <<>>
  ELSE <<Sub[d, DoubleN[HalveN[d, U32Bits], U32Bits]]>>
         \o biguint_digits[HalveN[d, U32Bits]]

RECURSIVE serialize_type(_, _)
RECURSIVE serialize_struct(_, _)

\* What derive(Serialize) would make of the enum: the variant's name as the
\* one key of an object.
serialize_scriptpubkey_tagged(v) ==
  IF v.variant = "Address"
    THEN JObj([k \in {<<"A","d","d","r","e","s","s">>} |-> JStr(v.v)])
    ELSE JObj([k \in {<<"S","c","r","i","p","t">>} |-> JStr(to_hex(v.v))])

\* ImportMultiRequestScriptPubkey: an address is the object {"address": a},
\* a script is its hex string.
serialize_scriptpubkey(v) ==
  IF v.variant = "Address"
    THEN JObj([k \in {<<"a","d","d","r","e","s","s">>} |-> JStr(v.v)])
    ELSE JStr(to_hex(v.v))

\* Serialize for the type of a field.
serialize_type(ty, v) ==
  CASE ty.k = "uint" -> JInt(FALSE, v)
    [] ty.k = "int" -> JInt(v.neg, v.d)
    [] ty.k = "f64" -> JFloat(v)
    [] ty.k = "bool" -> JBool(v)
    [] ty.k = "str" -> JStr(v)
    [] ty.k = "value" -> v
    [] ty.k = "hash" -> serialize_hash(ty, v)
    [] ty.k = "script" -> JStr(to_hex(v))
    [] ty.k = "opaque" -> JStr(v)
    [] ty.k = "enum" -> serialize_enum(Enum(ty.name), v)
    [] ty.k = "struct" -> serialize_struct(Schema(ty.name), v)
    [] ty.k = "bytes" -> JArr([i \in 1..Len(v) |-> JInt(FALSE, ByteDigits(v[i]))])
    [] ty.k = "biguint" ->
         JArr([i \in 1..Len(biguint_digits[v]) |-> JInt(FALSE, biguint_digits[v][i])])
    [] ty.k = "pair" -> JArr(<<JInt(FALSE, v[1]), JInt(FALSE, v[2])>>)
    [] ty.k = "scriptpubkey" -> serialize_scriptpubkey(v)
    [] ty.k = "vec" -> JArr([i \in 1..Len(v) |-> serialize_type(ty.of, v[i])])
    [] ty.k = "map" -> JObj([k \in DOMAIN v |-> serialize_type(ty.of, v[k])])

\* Option<T>::serialize: None is null.
serialize_option(ty, v) ==
  IF v.some THEN serialize_type(ty, v.v) ELSE JNull

\* A field written by its `with` function if it has one, by its type
\* otherwise.
serialize_field(f, v) ==
  CASE f.with = "serde_hex" -> serde_hex_serialize(v)
    [] f.with = "serde_hex::opt" -> serde_hex_opt_serialize(v)
    [] f.with = "as_btc" -> as_btc_serialize(v)
    [] f.with = "as_btc::opt" -> as_btc_opt_serialize(v)
    [] OTHER -> IF f.option THEN serialize_option(f.ty, v)
                ELSE serialize_type(f.ty, v)

\* A skip_serializing_if that would know of Options only.
skip_serializing_options_only(f, v) ==
  CASE f.skip_serializing_if = "Option::is_none" -> ~v.some
    [] OTHER -> FALSE

\* skip_serializing_if
skip_serializing(f, v) ==
  CASE f.skip_serializing_if = "Option::is_none" -> ~v.some
    [] f.skip_serializing_if = "<[_]>::is_empty" -> Len(v) = 0
    [] f.skip_serializing_if = "Vec::is_empty" -> Len(v) = 0
    [] OTHER -> FALSE

\* derive(Serialize) on a struct: an object with a key for every field that
\* is not skipped.
serialize_struct(s, v) ==
  LET kept == {i \in 1..Len(s.fields) : ~skip_serializing(s.fields[i], v[i])} IN
  JObj([k \in {WireKey(s, s.fields[i]) : i \in kept} |->
          LET i == CHOOSE i \in kept : WireKey(s, s.fields[i]) = k IN
          serialize_field(s.fields[i], v[i])])

(***************************************************************************)
(* Inputs of the struct codecs: for every schema a record with every field *)
(* filled in and the records that leave one optional field, or all of      *)
(* them, absent; and the JSON object that carries every key.               *)
(***************************************************************************)
SampleDifficulty ==
  <<"9","0","6","4","1","5","9","8","2","6","4","9","1",".","4","1">>

RECURSIVE SampleValue(_)
RECURSIVE SampleRecord(_)
SampleValue(ty) ==
  CASE ty.k = "uint" -> <<7>>
    [] ty.k = "int" -> [neg |-> TRUE, d |-> <<1>>]
    [] ty.k = "f64" -> f64_from_str[<<"0",".","5">>]
    [] ty.k = "bool" -> TRUE
    [] ty.k = "str" -> <<"s">>
    [] ty.k = "value" -> JStr(<<"v">>)
    [] ty.k = "bytes" -> <<171, 205>>
    [] ty.k = "biguint" -> Strip[DigitValues[BeforeDot[SampleDifficulty]]]
    [] ty.k = "script" -> <<0, 20, 171>>
    [] ty.k = "pair" -> <<<<0>>, <<9>>>>
    [] ty.k = "scriptpubkey" -> [variant |-> "Script", v |-> <<0, 20, 171>>]
    [] ty.k = "hash" -> [i \in 1..ty.len |-> (7 * i) % 256]
    [] ty.k = "opaque" -> CHOOSE x \in ValidStrings(ty.name) : TRUE
    [] ty.k = "amount" -> Sat(ty.signed, <<6,1,3,5,8,0>>)
    [] ty.k = "vec" -> <<SampleValue(ty.of)>>
    [] ty.k = "map" -> [k \in {<<"k">>} |-> SampleValue(ty.of)]
    [] ty.k = "struct" -> SampleRecord(Schema(ty.name))
    [] ty.k = "enum" -> 1

sample_value(f) ==
  IF f.flatten THEN SampleRecord(Schema(f.ty.name))
  ELSE IF f.option THEN Some(SampleValue(f.ty))
  ELSE SampleValue(f.ty)

SampleRecord(s) == [i \in 1..Len(s.fields) |-> sample_value(s.fields[i])]

\* The keys an object of schema s is read from, those of its flattened
\* structs included, each with its field and the place of the field's value
\* in the record.
RECURSIVE Leaves(_)
Leaves(s) ==
  UNION {IF s.fields[i].flatten
           THEN {[f |-> l.f, key |-> l.key, path |-> <<i>> \o l.path] :
                   l \in Leaves(Schema(s.fields[i].ty.name))}
           ELSE {[f |-> s.fields[i], key |-> WireKey(s, s.fields[i]), path |-> <<i>>]} :
         i \in 1..Len(s.fields)}

Leaf(s, key) == CHOOSE l \in Leaves(s) : l.key = key

RECURSIVE At(_, _)
At(v, path) ==
  IF Len(path) = 1 THEN v[path[1]] ELSE At(v[path[1]], Tail(path))

\* The value on the wire of a sample of a type, and of a field; a struct is
\* the object that carries every one of its keys.
RECURSIVE SampleWire(_)
RECURSIVE BaseObject(_)
SampleWire(ty) ==
  CASE ty.k = "struct" -> BaseObject(Schema(ty.name))
    [] ty.k = "vec" -> JArr(<<SampleWire(ty.of)>>)
    [] ty.k = "map" -> JObj([k \in {<<"k">>} |-> SampleWire(ty.of)])
    [] OTHER -> serialize_type(ty, SampleValue(ty))

sample_wire(f) ==
  CASE f.deserialize_with = "deserialize_difficulty" ->
         json_parse_number[SampleDifficulty].v
    [] f.deserialize_with = "deserialize_hex_array_opt" ->
         JArr(<<JStr(<<"3","0","4","5">>), JStr(<<"A","b","C","d">>)>>)
    [] f.with # "" -> serialize_field(f, sample_value(f))
    [] OTHER -> SampleWire(f.ty)

BaseObject(s) ==
  JObj([k \in {l.key : l \in Leaves(s)} |-> sample_wire(Leaf(s, k).f)])

Without(o, key) == [k \in (DOMAIN o) \ {key} |-> o[k]]
WithNull(o, key) == [k \in (DOMAIN o) \cup {key} |-> IF k = key THEN JNull ELSE o[k]]

OptionalFields(s) == {i \in 1..Len(s.fields) : s.fields[i].option}
Absent(v, I) == [i \in DOMAIN v |-> IF i \in I THEN None ELSE v[i]]

SampleRecords(s) ==
  {SampleRecord(s), Absent(SampleRecord(s), OptionalFields(s))}
    \cup {Absent(SampleRecord(s), {i}) : i \in OptionalFields(s)}

Decodable == {n \in SchemaNames : Schema(n).de}
Encodable == {n \in SchemaNames : Schema(n).ser}

(***************************************************************************)
(* The struct codecs' calls.                                               *)
(***************************************************************************)
\* Decode the object that carries every key of the schema.
StructDeserialize ==
  \E n \in Decodable : \E j \in {BaseObject(Schema(n))} :
    /\ op = "init"
    /\ op' = "struct_deserialize"
    /\ arg' = [schema |-> n]
    /\ wire' = j
    /\ out' = deserialize_struct(Schema(n), j)
    /\ prev' = Nothing

\* Decode the last object with one of its keys taken out.
StructDeserializeMissing ==
  /\ op = "struct_deserialize"
  /\ \E key \in DOMAIN wire.o : \E j \in {JObj(Without(wire.o, key))} :
    /\ op' = "struct_deserialize_missing"
    /\ arg' = [schema |-> arg.schema, key |-> key]
    /\ wire' = j
    /\ out' = deserialize_struct(Schema(arg.schema), j)
    /\ prev' = [wire |-> wire, out |-> out]

\* Decode the last object with the key that was taken out set to null.
StructDeserializeNull ==
  /\ op = "struct_deserialize_missing"
  /\ \E j \in {JObj(WithNull(wire.o, arg.key))} :
    /\ op' = "struct_deserialize_null"
    /\ arg' = arg
    /\ wire' = j
    /\ out' = deserialize_struct(Schema(arg.schema), j)
    /\ prev' = [wire |-> wire, out |-> out]

\* Encode a record made in memory.
StructSerialize ==
  \E n \in Encodable : \E v \in SampleRecords(Schema(n)) :
    /\ op = "init"
    /\ op' = "struct_serialize"
    /\ arg' = [schema |-> n, value |-> v, decoded |-> FALSE]
    /\ wire' = serialize_struct(Schema(n), v)
    /\ out' = Nothing
    /\ prev' = Nothing

\* Encode the record the last decode produced.
StructSerializeDecoded ==
  /\ op \in {"struct_deserialize", "struct_deserialize_missing", "struct_deserialize_null"}
  /\ out.ok
  /\ arg.schema \in Encodable
  /\ op' = "struct_serialize"
  /\ arg' = [schema |-> arg.schema, value |-> out.v, decoded |-> TRUE]
  /\ wire' = serialize_struct(Schema(arg.schema), out.v)
  /\ out' = Nothing
  /\ prev' = Nothing

\* Decode what the last encode produced.
StructDeserializeEncoded ==
  /\ op = "struct_serialize"
  /\ arg.schema \in Decodable
  /\ op' = "struct_roundtrip"
  /\ out' = deserialize_struct(Schema(arg.schema), wire)
  /\ UNCHANGED <<arg, wire, prev>>

(***************************************************************************)
(* The arguments with a Serialize of their own.                            *)
(***************************************************************************)
\* What derive(Serialize) would make of PubKeyOrAddress.
PubKeyOrAddress_serialize_tagged(v) ==
  IF v.variant = "Address"
    THEN JObj([k \in {<<"A","d","d","r","e","s","s">>} |-> JStr(v.v)])
    ELSE JObj([k \in {<<"P","u","b","K","e","y">>} |-> JStr(v.v)])

\* PubKeyOrAddress::serialize: the Serialize of the address or of the key.
PubKeyOrAddress_serialize(v) ==
  IF v.variant = "Address"
    THEN serialize_type(T_opaque("Address"), v.v)
    ELSE serialize_type(T_opaque("PublicKey"), v.v)

\* bitcoin::SigHashType
SigHashTypes ==
  {<<"A","l","l">>, <<"N","o","n","e">>, <<"S","i","n","g","l","e">>,
   <<"A","l","l","P","l","u","s","A","n","y","o","n","e","C","a","n","P","a","y">>,
   <<"N","o","n","e","P","l","u","s","A","n","y","o","n","e","C","a","n","P","a","y">>,
   <<"S","i","n","g","l","e","P","l","u","s","A","n","y","o","n","e","C","a","n","P","a","y">>}

\* What derive(Serialize) with rename_all = "UPPERCASE" would make of it.
SigHashType_serialize_uppercase(v) == JStr(to_ascii_uppercase(v))

\* SigHashType::serialize
SigHashType_serialize(v) ==
  JStr(CASE v = <<"A","l","l">> -> <<"A","L","L">>
         [] v = <<"N","o","n","e">> -> <<"N","O","N","E">>
         [] v = <<"S","i","n","g","l","e">> -> <<"S","I","N","G","L","E">>
         [] v = <<"A","l","l","P","l","u","s","A","n","y","o","n","e","C","a","n","P","a","y">> ->
              <<"A","L","L","|","A","N","Y","O","N","E","C","A","N","P","A","Y">>
         [] v = <<"N","o","n","e","P","l","u","s","A","n","y","o","n","e","C","a","n","P","a","y">> ->
              <<"N","O","N","E","|","A","N","Y","O","N","E","C","A","N","P","A","Y">>
         [] v = <<"S","i","n","g","l","e","P","l","u","s","A","n","y","o","n","e","C","a","n","P","a","y">> ->
              <<"S","I","N","G","L","E","|","A","N","Y","O","N","E","C","A","N","P","A","Y">>)

\* The script arguments of importmulti, and the arguments that are an
\* address or a public key.
ScriptPubkeys ==
  {[variant |-> "Address", v |-> a] : a \in ValidStrings("Address")}
    \cup {[variant |-> "Script", v |-> b] : b \in ByteStrings}
PubKeysOrAddresses ==
  {[variant |-> "Address", v |-> a] : a \in ValidStrings("Address")}
    \cup {[variant |-> "PubKey", v |-> k] : k \in ValidStrings("PublicKey")}

ScriptPubkeySerialize ==
  \E v \in ScriptPubkeys :
    /\ op = "init"
    /\ op' = "scriptpubkey_serialize"
    /\ arg' = v
    /\ wire' = serialize_scriptpubkey(v)
    /\ out' = Nothing
    /\ prev' = Nothing

PubKeyOrAddressSerialize ==
  \E v \in PubKeysOrAddresses :
    /\ op = "init"
    /\ op' = "pubkey_or_address_serialize"
    /\ arg' = v
    /\ wire' = PubKeyOrAddress_serialize(v)
    /\ out' = Nothing
    /\ prev' = Nothing

SigHashTypeSerialize ==
  \E v \in SigHashTypes :
    /\ op = "init"
    /\ op' = "sighashtype_serialize"
    /\ arg' = v
    /\ wire' = SigHashType_serialize(v)
    /\ out' = Nothing
    /\ prev' = Nothing

WithKey(o, key, value) ==
  [k \in (DOMAIN o) \cup {key} |-> IF k = key THEN value ELSE o[k]]

\* The value of the field called name in the record v of schema s.
FieldIndex(s, name) == CHOOSE i \in 1..Len(s.fields) : s.fields[i].name = name
Get(s, v, name) == v[FieldIndex(s, name)]

\* GetRawTransactionResultVin::is_coinbase
GetRawTransactionResultVin_is_coinbase_by_txid(self) ==
  ~Get(GetRawTransactionResultVin, self, <<"t","x","i","d">>).some
GetRawTransactionResultVin_is_coinbase(self) ==
  Get(GetRawTransactionResultVin, self, <<"c","o","i","n","b","a","s","e">>).some

\* GetRawTransactionResult::is_coinbase
GetRawTransactionResult_first_is_coinbase(self) ==
  /\ Len(Get(GetRawTransactionResult, self, <<"v","i","n">>)) >= 1
  /\ GetRawTransactionResultVin_is_coinbase(Get(GetRawTransactionResult, self, <<"v","i","n">>)[1])
GetRawTransactionResult_is_coinbase(self) ==
  /\ Len(Get(GetRawTransactionResult, self, <<"v","i","n">>)) = 1
  /\ GetRawTransactionResultVin_is_coinbase(Get(GetRawTransactionResult, self, <<"v","i","n">>)[1])

\* The inputs of a transaction on the wire: every object that has the
\* required key and some of the optional ones; among them the input of a
\* coinbase transaction and the input of any other transaction.
Restrict(o, keys) == [k \in keys |-> o[k]]
RequiredKeys(s) == {l.key : l \in {l \in Leaves(s) : ~l.f.option}}
OptionalKeys(s) == {l.key : l \in {l \in Leaves(s) : l.f.option}}
VinObjects ==
  {JObj(Restrict(BaseObject(GetRawTransactionResultVin).o,
                 RequiredKeys(GetRawTransactionResultVin) \cup keys)) :
     keys \in SUBSET OptionalKeys(GetRawTransactionResultVin)}
CoinbaseVinKeys ==
  {<<"s","e","q","u","e","n","c","e">>, <<"c","o","i","n","b","a","s","e">>}
SpendingVinKeys ==
  {<<"s","e","q","u","e","n","c","e">>, <<"t","x","i","d">>, <<"v","o","u","t">>,
   <<"s","c","r","i","p","t","S","i","g">>}
VinShapes ==
  {JObj(Restrict(BaseObject(GetRawTransactionResultVin).o, keys)) :
     keys \in {CoinbaseVinKeys, SpendingVinKeys}}

\* The replies to getrawtransaction with up to MaxVins inputs.
MaxVins == 2
TxObjects ==
  {JObj(WithKey(BaseObject(GetRawTransactionResult).o, <<"v","i","n">>, JArr(vin))) :
     vin \in SeqsUpTo(VinShapes, MaxVins)}

\* Decode a transaction input that has some of its optional keys.
VinDeserialize ==
  \E j \in VinObjects :
    /\ op = "init"
    /\ op' = "vin_deserialize"
    /\ arg' = [schema |-> "GetRawTransactionResultVin"]
    /\ wire' = j
    /\ out' = deserialize_struct(GetRawTransactionResultVin, j)
    /\ prev' = Nothing

\* Ask the decoded input whether it is a coinbase.
VinIsCoinbase ==
  /\ op = "vin_deserialize"
  /\ out.ok
  /\ op' = "vin_is_coinbase"
  /\ out' = GetRawTransactionResultVin_is_coinbase(out.v)
  /\ prev' = [wire |-> wire, out |-> out]
  /\ UNCHANGED <<arg, wire>>

\* Decode a transaction with its inputs.
TxDeserialize ==
  \E j \in TxObjects :
    /\ op = "init"
    /\ op' = "tx_deserialize"
    /\ arg' = [schema |-> "GetRawTransactionResult"]
    /\ wire' = j
    /\ out' = deserialize_struct(GetRawTransactionResult, j)
    /\ prev' = Nothing

\* Ask the decoded transaction whether it is a coinbase.
TxIsCoinbase ==
  /\ op = "tx_deserialize"
  /\ out.ok
  /\ op' = "tx_is_coinbase"
  /\ out' = GetRawTransactionResult_is_coinbase(out.v)
  /\ prev' = [wire |-> wire, out |-> out]
  /\ UNCHANGED <<arg, wire>>

\* The replies to gettransaction: the amount and the fee, of the transaction
\* and of its one detail, are numbers read from JSON text; the fee may be
\* missing.
WithAmounts(o, amount, fee) ==
  IF fee.some
    THEN WithKey(WithKey(o, <<"a","m","o","u","n","t">>, json_parse_number[amount].v),
                 <<"f","e","e">>, json_parse_number[fee.v].v)
    ELSE Without(WithKey(o, <<"a","m","o","u","n","t">>, json_parse_number[amount].v),
                 <<"f","e","e">>)
GetTransactionObject(amount, fee) ==
  JObj(WithKey(WithAmounts(BaseObject(GetTransactionResult).o, amount, fee),
               <<"d","e","t","a","i","l","s">>,
               JArr(<<JObj(WithAmounts(BaseObject(GetTransactionResultDetail).o,
                                       amount, fee))>>)))

\* Decode a reply to gettransaction.
GetTransactionDeserialize ==
  \E amount \in AmountTexts : \E fee \in {None} \cup {Some(t) : t \in AmountTexts} :
    \E j \in {GetTransactionObject(amount, fee)} :
      /\ op = "init"
      /\ op' = "gettransaction_deserialize"
      /\ arg' = [schema |-> "GetTransactionResult", amount |-> amount, fee |-> fee]
      /\ wire' = j
      /\ out' = deserialize_struct(GetTransactionResult, j)
      /\ prev' = Nothing

\* The keys of the replies of bitcoind that no struct has a field for, and
\* values under them.
ExtraKeys ==
  {<<"w","e","i","g","h","t">>,
   <<"w","a","l","l","e","t","c","o","n","f","l","i","c","t","s">>}
ExtraValues == {JArr(<<>>), JInt(FALSE, <<9,0,4>>), JNull}

\* Decode the last object with one more key, one that names no field.
StructDeserializeExtra ==
  /\ op = "struct_deserialize"
  /\ \E key \in ExtraKeys \ DOMAIN wire.o : \E value \in ExtraValues :
     \E j \in {JObj(WithKey(wire.o, key, value))} :
       /\ op' = "struct_deserialize_extra"
       /\ arg' = [schema |-> arg.schema, key |-> key]
       /\ wire' = j
       /\ out' = deserialize_struct(Schema(arg.schema), j)
       /\ prev' = [wire |-> wire, out |-> out]

(***************************************************************************)
(* The transaction() accessors.  Each hands the bytes of hex to            *)
(* bitcoin::consensus::encode::deserialize, which reads one Transaction    *)
(* and refuses bytes that are left over.  Numbers are little-endian;       *)
(* every failure is an encode::Error, kept here without its kind.          *)
(***************************************************************************)
Add[a \in Digits, b \in Digits] ==
  LET n == (IF Len(a) > Len(b) THEN Len(a) ELSE Len(b)) + 1
      aa == Zeros(n - Len(a)) \o a
      bb == Zeros(n - Len(b)) \o b
      carry[i \in 1..(n + 1)] ==
        IF i = n + 1 THEN 0 ELSE (aa[i] + bb[i] + carry[i + 1]) \div 10
  IN Strip[[i \in 1..n |-> (aa[i] + bb[i] + carry[i + 1]) % 10]]

\* The number whose little-endian bytes are b, in decimal digits.
RECURSIVE from_le_bytes(_)
from_le_bytes(b) ==
  IF b = <<>> THEN <<0>>
  ELSE Add[Double8[from_le_bytes(Tail(b))], ByteDigits(Head(b))]

EncodeError == Err(<<"e","n","c","o","d","e",":",":","E","r","r","o","r">>)
Read(v, rest) == [ok |-> TRUE, v |-> v, rest |-> rest]
The(S) == CHOOSE x \in S : TRUE

\* n bytes off the front of d.
read_exact(d, n) ==
  IF Len(d) < n THEN EncodeError
  ELSE Read(SubSeq(d, 1, n), SubSeq(d, n + 1, Len(d)))

\* An integer of n bytes.
read_uint(d, n) ==
  The({IF ~r.ok THEN r ELSE Read(from_le_bytes(r.v), r.rest) :
       r \in {read_exact(d, n)}})

\* VarInt: one byte below 0xFD is the number; 0xFD, 0xFE and 0xFF announce
\* 2, 4 and 8 bytes, which must not hold a number the shorter form can
\* hold.  A length of 2^16 or more is kept as 2^16: Vec refuses to allocate
\* that many items or fails to read them, the data being shorter.
VarIntWidth(tag) == IF tag = 253 THEN 2 ELSE IF tag = 254 THEN 4 ELSE 8
VarIntMin(tag) ==
  IF tag = 253 THEN <<2,5,3>>
  ELSE IF tag = 254 THEN <<6,5,5,3,6>>
  ELSE <<4,2,9,4,9,6,7,2,9,6>>
TooLong == 65536
read_varint(d) ==
  IF d = <<>> THEN EncodeError
  ELSE IF Head(d) < 253 THEN Read(Head(d), Tail(d))
  ELSE The({IF ~r.ok THEN r
            ELSE IF Cmp[r.v, VarIntMin(Head(d))] < 0 THEN EncodeError
            ELSE IF Head(d) = 253 THEN Read(d[2] + 256 * d[3], r.rest)
            ELSE Read(TooLong, r.rest) :
            r \in {read_uint(Tail(d), VarIntWidth(Head(d)))}})

\* Vec<u8>: a length and that many bytes.
read_bytes(d) ==
  The({IF ~n.ok THEN n ELSE read_exact(n.rest, n.v) : n \in {read_varint(d)}})

RECURSIVE read_item(_, _)
RECURSIVE read_many(_, _, _)
\* n items of one kind, one after the other.
read_many(kind, d, n) ==
  IF n = 0 THEN Read(<<>>, d)
  ELSE The({IF ~i.ok THEN i
            ELSE The({IF ~r.ok THEN r ELSE Read(<<i.v>> \o r.v, r.rest) :
                      r \in {read_many(kind, i.rest, n - 1)}}) :
            i \in {read_item(kind, d)}})

\* Vec<T>: a count and that many items.
read_vec(kind, d) ==
  The({IF ~n.ok THEN n ELSE read_many(kind, n.rest, n.v) : n \in {read_varint(d)}})

\* TxIn after its outpoint, and TxOut after its value.
TxIn_after_outpoint(txid, vout, d) ==
  The({IF ~script_sig.ok THEN script_sig
       ELSE The({IF ~sequence.ok THEN sequence
                 ELSE Read([previous_output |-> [txid |-> txid, vout |-> vout],
                            script_sig |-> script_sig.v,
                            sequence |-> sequence.v,
                            witness |-> <<>>],
                           sequence.rest) :
                 sequence \in {read_uint(script_sig.rest, 4)}}) :
       script_sig \in {read_bytes(d)}})

read_item(kind, d) ==
  CASE kind = "bytes" -> read_bytes(d)
    [] kind = "witness" -> read_vec("bytes", d)
    [] kind = "txin" ->
         The({IF ~txid.ok THEN txid
              ELSE The({IF ~vout.ok THEN vout
                        ELSE TxIn_after_outpoint(txid.v, vout.v, vout.rest) :
                        vout \in {read_uint(txid.rest, 4)}}) :
              txid \in {read_exact(d, Sha256Len)}})
    [] kind = "txout" ->
         The({IF ~value.ok THEN value
              ELSE The({IF ~script_pubkey.ok THEN script_pubkey
                        ELSE Read([value |-> value.v, script_pubkey |-> script_pubkey.v],
                                  script_pubkey.rest) :
                        script_pubkey \in {read_bytes(value.rest)}}) :
              value \in {read_uint(d, 8)}})

\* The inputs, each with its witness.
WithWitnesses(input, witnesses) ==
  [i \in 1..Len(input) |-> [input[i] EXCEPT !.witness = witnesses[i]]]

\* The end of a transaction: the lock time.
Transaction_lock_time(version, input, output, d) ==
  The({IF ~lock_time.ok THEN lock_time
       ELSE Read([version |-> version, lock_time |-> lock_time.v,
                  input |-> input, output |-> output],
                 lock_time.rest) :
       lock_time \in {read_uint(d, 4)}})

\* The segwit form after its flag: the inputs, the outputs and a witness
\* for each input, not all of them empty.
Transaction_segwit(version, d) ==
  The({IF ~input.ok THEN input
       ELSE The({IF ~output.ok THEN output
                 ELSE The({IF ~witnesses.ok THEN witnesses
                           ELSE IF /\ input.v # <<>>
                                   /\ \A i \in 1..Len(witnesses.v) : witnesses.v[i] = <<>>
                             THEN EncodeError
                           ELSE Transaction_lock_time(
                                  version, WithWitnesses(input.v, witnesses.v),
                                  output.v, witnesses.rest) :
                           witnesses \in {read_many("witness", output.rest,
                                                    Len(input.v))}}) :
                 output \in {read_vec("txout", input.rest)}}) :
       input \in {read_vec("txin", d)}})

\* Transaction::consensus_decode.  No input at all announces the segwit
\* form, whose flag is 1.
Transaction_consensus_decode(d) ==
  The({IF ~version.ok THEN version
       ELSE The({IF ~input.ok THEN input
                 ELSE IF input.v = <<>>
                   THEN The({IF ~flag.ok THEN flag
                             ELSE IF flag.v # <<1>> THEN EncodeError
                             ELSE Transaction_segwit(version.v, flag.rest) :
                             flag \in {read_exact(input.rest, 1)}})
                 ELSE The({IF ~output.ok THEN output
                           ELSE Transaction_lock_time(version.v, input.v, output.v,
                                                      output.rest) :
                           output \in {read_vec("txout", input.rest)}}) :
                 input \in {read_vec("txin", version.rest)}}) :
       version \in {read_uint(d, 4)}})

\* A decoder that takes the transaction at the front of the bytes and lets
\* the rest be.
encode_deserialize_partial(d) ==
  The({IF ~r.ok THEN r ELSE Ok(r.v) : r \in {Transaction_consensus_decode(d)}})

\* encode::deserialize: the transaction, if the bytes hold it and no more.
encode_deserialize(d) ==
  The({IF ~r.ok THEN r
       ELSE IF r.rest # <<>> THEN EncodeError
       ELSE Ok(r.v) :
       r \in {Transaction_consensus_decode(d)}})

\* The records that carry a transaction in hex.
TransactionResults ==
  {"GetRawTransactionResult", "GetTransactionResult", "SignRawTransactionResult",
   "FundRawTransactionResult"}

\* transaction(&self) of each of them: the result, and the record after the
\* call.
transaction(n, self) ==
  [result |-> encode_deserialize(Get(Schema(n), self, <<"h","e","x">>)),
   self |-> Some(self)]

\* Transactions in bytes: txids told apart by k, one or two inputs, with
\* and without witnesses; and bytes that are no transaction.
TxidBytes(k) == [i \in 1..Sha256Len |-> (37 * i + k) % 256]
TxInBytes(k) == TxidBytes(k) \o <<1,0,0,0>> \o <<2, 0, 20>> \o <<254,255,255,255>>
TxOutBytes == <<29,196,38,12,1,0,0,0>> \o <<3, 118, 169, 20>>
LegacyTx(k) ==
  <<2,0,0,0>> \o <<1>> \o TxInBytes(k) \o <<2>> \o TxOutBytes \o TxOutBytes \o <<157,0,0,0>>
TwoInputTx(k) ==
  <<1,0,0,0>> \o <<2>> \o TxInBytes(k) \o TxInBytes(k + 1) \o <<1>> \o TxOutBytes
    \o <<0,0,0,0>>
SegwitTx(k) ==
  <<2,0,0,0>> \o <<0, 1>> \o <<1>> \o TxInBytes(k) \o <<1>> \o TxOutBytes
    \o <<2, 1, 48, 2, 3, 4>> \o <<0,0,0,0>>
LongVarIntTx(k) ==
  <<2,0,0,0>> \o <<253, 1, 0>> \o TxInBytes(k) \o <<1>> \o TxOutBytes \o <<0,0,0,0>>
TxSamples ==
  UNION {{[bytes |-> LegacyTx(k), valid |-> TRUE, txid |-> TxidBytes(k)],
          [bytes |-> TwoInputTx(k), valid |-> TRUE, txid |-> TxidBytes(k)],
          [bytes |-> SegwitTx(k), valid |-> TRUE, txid |-> TxidBytes(k)],
          [bytes |-> LegacyTx(k) \o <<0>>, valid |-> FALSE, txid |-> <<>>],
          [bytes |-> SubSeq(LegacyTx(k), 1, Len(LegacyTx(k)) - 1), valid |-> FALSE,
           txid |-> <<>>],
          [bytes |-> SubSeq(LegacyTx(k), 1, 20), valid |-> FALSE, txid |-> <<>>],
          [bytes |-> LongVarIntTx(k), valid |-> FALSE, txid |-> <<>>]} : k \in {1, 2}}
    \cup {[bytes |-> <<>>, valid |-> FALSE, txid |-> <<>>],
          [bytes |-> <<2,0,0,0, 0, 0, 0,0,0,0>>, valid |-> FALSE, txid |-> <<>>],
          [bytes |-> <<1, 2>>, valid |-> FALSE, txid |-> <<>>]}

\* Decode a record whose hex is one of the samples.
HexRecordDeserialize ==
  \E n \in TransactionResults : \E base \in {BaseObject(Schema(n))} : \E t \in TxSamples :
  \E j \in {JObj(WithKey(base.o, <<"h","e","x">>, JStr(to_hex(t.bytes))))} :
    /\ op = "init"
    /\ op' = "hex_record_deserialize"
    /\ arg' = [schema |-> n, tx |-> t]
    /\ wire' = j
    /\ out' = deserialize_struct(Schema(n), j)
    /\ prev' = Nothing

\* Ask the decoded record for its transaction.
Transaction ==
  /\ op = "hex_record_deserialize"
  /\ out.ok
  /\ \E r \in {transaction(arg.schema, out.v)} :
       /\ op' = "transaction"
       /\ arg' = [schema |-> arg.schema, tx |-> arg.tx, self |-> r.self]
       /\ out' = r.result
       /\ prev' = [wire |-> wire, out |-> out]
       /\ UNCHANGED wire

(***************************************************************************)
(* GetBlockFilterResult::to_filter and into_filter.  A bip158::BlockFilter *)
(* is its content; to_filter borrows the record, into_filter takes it.     *)
(***************************************************************************)
BlockFilter(content) == [content |-> content]

\* A to_filter that would move the bytes out of the record.
GetBlockFilterResult_to_filter_moving(self) ==
  [result |-> BlockFilter(Get(GetBlockFilterResult, self, <<"f","i","l","t","e","r">>)),
   self |-> None]

\* to_filter(&self): BlockFilter::new(&self.filter) copies the bytes.
GetBlockFilterResult_to_filter(self) ==
  [result |-> BlockFilter(Get(GetBlockFilterResult, self, <<"f","i","l","t","e","r">>)),
   self |-> Some(self)]

\* into_filter(self): BlockFilter { content: self.filter }; the record is
\* gone after the call.
GetBlockFilterResult_into_filter(self) ==
  [result |-> BlockFilter(Get(GetBlockFilterResult, self, <<"f","i","l","t","e","r">>)),
   self |-> None]

\* Decode a reply to getblockfilter whose filter is the hex of some bytes.
FilterDeserialize ==
  \E base \in {BaseObject(GetBlockFilterResult)} : \E b \in ByteStrings :
  \E j \in {JObj(WithKey(base.o, <<"f","i","l","t","e","r">>, JStr(to_hex(b))))} :
  \E r \in {deserialize_struct(GetBlockFilterResult, j)} :
    /\ op = "init"
    /\ op' = "filter_deserialize"
    /\ arg' = [bytes |-> b, self |-> IF r.ok THEN Some(r.v) ELSE None]
    /\ wire' = j
    /\ out' = r
    /\ prev' = Nothing

\* Borrow the filter of the record, for the first time or again.
ToFilter ==
  /\ op \in {"filter_deserialize", "to_filter"}
  /\ arg.self.some
  /\ \E r \in {GetBlockFilterResult_to_filter(arg.self.v)} :
       /\ op' = "to_filter"
       /\ arg' = [bytes |-> arg.bytes, self |-> r.self]
       /\ out' = r.result
       /\ prev' = [op |-> op, out |-> out, self |-> arg.self]
       /\ UNCHANGED wire

\* Turn the record into its filter.
IntoFilter ==
  /\ op \in {"filter_deserialize", "to_filter"}
  /\ arg.self.some
  /\ \E r \in {GetBlockFilterResult_into_filter(arg.self.v)} :
       /\ op' = "into_filter"
       /\ arg' = [bytes |-> arg.bytes, self |-> r.self]
       /\ out' = r.result
       /\ prev' = [op |-> op, out |-> out, self |-> arg.self]
       /\ UNCHANGED wire

(***************************************************************************)
(* Objects with one malformed value, at any depth.                        *)
(***************************************************************************)
\* A value of the wrong JSON type for ty, and a string that is not hex.
WrongType(ty) == IF ty.k = "bool" THEN JStr(<<"x">>) ELSE JBool(TRUE)
NotHex == JStr(<<"0","g">>)

\* The sequence a with its i-th element replaced.
WithElement(a, i, x) == [a EXCEPT ![i] = x]

RECURSIVE Malformed(_, _)
RECURSIVE MalformedObject(_, _)
\* The values that differ from j, a value of type ty, in one malformed
\* place: j itself of the wrong type, or one element of the array, one
\* entry of the map, one value of the object malformed in its turn.  A
\* serde_json::Value takes anything.
Malformed(ty, j) ==
  IF ty.k = "value" THEN {}
  ELSE {WrongType(ty)}
    \cup (CASE ty.k = "vec" /\ j.t = "arr" ->
                 UNION {{JArr(WithElement(j.a, i, m)) : m \in Malformed(ty.of, j.a[i])} :
                        i \in 1..Len(j.a)}
            [] ty.k = "map" /\ j.t = "obj" ->
                 UNION {{JObj(WithKey(j.o, k, m)) : m \in Malformed(ty.of, j.o[k])} :
                        k \in DOMAIN j.o}
            [] ty.k = "struct" /\ j.t = "obj" ->
                 {JObj(o) : o \in MalformedObject(Schema(ty.name), j.o)}
            [] OTHER -> {})

\* The same for the value of a field: hex that is not hex, and one element
\* of an array of hex.
MalformedField(f, j) ==
  IF f.deserialize_with = "deserialize_hex_array_opt"
    THEN {WrongType(f.ty)}
           \cup UNION {{JArr(WithElement(j.a, i, m)) : m \in {NotHex, JBool(TRUE)}} :
                       i \in 1..Len(j.a)}
  ELSE IF f.with = "serde_hex" THEN {WrongType(f.ty), NotHex}
  ELSE IF f.with # "" \/ f.deserialize_with # "" THEN {WrongType(f.ty)}
  ELSE Malformed(f.ty, j)

MalformedObject(s, o) ==
  UNION {{WithKey(o, l.key, m) : m \in MalformedField(l.f, o[l.key])} :
         l \in {x \in Leaves(s) : x.key \in DOMAIN o}}

\* Decode the last object with one value, at some depth, malformed.
StructDeserializeMalformed ==
  /\ op = "struct_deserialize"
  /\ out.ok
  /\ \E o \in MalformedObject(Schema(arg.schema), wire.o) :
       /\ op' = "struct_deserialize_malformed"
       /\ arg' = arg
       /\ wire' = JObj(o)
       /\ out' = deserialize_struct(Schema(arg.schema), JObj(o))
       /\ prev' = [wire |-> wire, out |-> out]

\* Witness stacks on the wire: arrays of up to MaxVins strings, hex and not.
WitnessStrings ==
  {<<"0","1","0","2">>, <<"a","1","f","f">>, <<"A","b">>, <<>>, <<"0","g">>,
   <<"a","b","c">>}
WitnessArrays ==
  {JArr([i \in DOMAIN a |-> JStr(a[i])]) : a \in SeqsUpTo(WitnessStrings, MaxVins)}

\* Decode the input of a spending transaction with a witness stack.
VinWitnessDeserialize ==
  \E base \in {Restrict(BaseObject(GetRawTransactionResultVin).o, SpendingVinKeys)} :
  \E w \in WitnessArrays :
  \E j \in {JObj(WithKey(base, <<"t","x","i","n","w","i","t","n","e","s","s">>, w))} :
    /\ op = "init"
    /\ op' = "vin_witness_deserialize"
    /\ arg' = [schema |-> "GetRawTransactionResultVin", witness |-> w.a]
    /\ wire' = j
    /\ out' = deserialize_struct(GetRawTransactionResultVin, j)
    /\ prev' = Nothing

\* The requests to importmulti: each field but timestamp carries data or
\* none (None, the empty slice), with at most one field that carries data
\* or at most two that do not; Default gives timestamp 0 and no data.
ImportMultiRequests ==
  {[i \in 1..Len(ImportMultiRequest.fields) |->
      IF i = 1 THEN timestamp
      ELSE IF i \in carried THEN sample_value(ImportMultiRequest.fields[i])
      ELSE IF ImportMultiRequest.fields[i].option THEN None
      ELSE <<>>] :
     carried \in {K \in SUBSET (2..Len(ImportMultiRequest.fields)) :
                   \/ Cardinality(K) <= 1
                   \/ Cardinality(K) >= Len(ImportMultiRequest.fields) - 3},
     timestamp \in {<<0>>, <<1,5,3,4,9,3,5,1,3,8>>}}
ImportMultiRequest_default ==
  [i \in 1..Len(ImportMultiRequest.fields) |->
     IF i = 1 THEN <<0>>
     ELSE IF ImportMultiRequest.fields[i].option THEN None
     ELSE <<>>]

\* Encode a request to importmulti.
ImportMultiRequestSerialize ==
  \E v \in ImportMultiRequests :
    /\ op = "init"
    /\ op' = "import_multi_request_serialize"
    /\ arg' = [schema |-> "ImportMultiRequest", value |-> v]
    /\ wire' = serialize_struct(ImportMultiRequest, v)
    /\ out' = Nothing
    /\ prev' = Nothing

(***************************************************************************)
(* The script() accessors: a Script made of a copy of the bytes of hex.    *)
(***************************************************************************)
Script(bytes) == [script |-> bytes]
ScriptRecords ==
  {"GetRawTransactionResultVinScriptSig", "GetRawTransactionResultVoutScriptPubKey"}

\* An accessor that would refuse the empty script.
script_nonempty_only(n, self) ==
  [result |-> IF Get(Schema(n), self, <<"h","e","x">>) = <<>>
                THEN EncodeError
                ELSE Ok(Script(Get(Schema(n), self, <<"h","e","x">>))),
   self |-> Some(self)]

\* script(&self): Ok(Script::from(self.hex.clone())), for both records.
script(n, self) ==
  [result |-> Ok(Script(Get(Schema(n), self, <<"h","e","x">>))),
   self |-> Some(self)]

\* Decode a scriptSig or a scriptPubKey whose hex is that of some bytes.
ScriptRecordDeserialize ==
  \E n \in ScriptRecords : \E base \in {BaseObject(Schema(n))} : \E b \in ByteStrings :
  \E j \in {JObj(WithKey(base.o, <<"h","e","x">>, JStr(to_hex(b))))} :
    /\ op = "init"
    /\ op' = "script_record_deserialize"
    /\ arg' = [schema |-> n, bytes |-> b]
    /\ wire' = j
    /\ out' = deserialize_struct(Schema(n), j)
    /\ prev' = Nothing

\* Ask the decoded record for its script.
ScriptAccessor ==
  /\ op = "script_record_deserialize"
  /\ out.ok
  /\ \E r \in {script(arg.schema, out.v)} :
       /\ op' = "script"
       /\ arg' = [schema |-> arg.schema, bytes |-> arg.bytes, self |-> r.self]
       /\ out' = r.result
       /\ prev' = [wire |-> wire, out |-> out]
       /\ UNCHANGED wire

StructNext ==
  \/ StructDeserialize
  \/ StructDeserializeMissing
  \/ StructDeserializeNull
  \/ StructSerialize
  \/ StructSerializeDecoded
  \/ StructDeserializeEncoded
  \/ StructDeserializeExtra
  \/ VinDeserialize
  \/ VinIsCoinbase
  \/ TxDeserialize
  \/ TxIsCoinbase
  \/ ScriptPubkeySerialize
  \/ PubKeyOrAddressSerialize
  \/ SigHashTypeSerialize
  \/ GetTransactionDeserialize
  \/ HexRecordDeserialize
  \/ Transaction
  \/ FilterDeserialize
  \/ ToFilter
  \/ IntoFilter
  \/ StructDeserializeMalformed
  \/ VinWitnessDeserialize
  \/ ImportMultiRequestSerialize
  \/ ScriptRecordDeserialize
  \/ ScriptAccessor
  \/ Return

SpecStruct == InitIdle /\ [][StructNext]_vars

(***************************************************************************)
(* Independent callers.  Each caller makes one codec call at a time; a     *)
(* call takes two steps, as its function does: the first reads the input   *)
(* into a local of the call's frame (the String of the hex adapter, the    *)
(* printed f64 of deserialize_difficulty, the hex text of the encoder),    *)
(* the second computes the result from that local.  The steps of           *)
(* different callers interleave freely.  Here op, arg and out hold each    *)
(* caller's position, input and result, and wire holds the frames.         *)
(***************************************************************************)
NumCallers == 2
Callers == 1..NumCallers

\* The calls a caller makes.
CodecCalls ==
  {[f |-> "deserialize_difficulty", x |-> json_parse_number[t].v] :
     t \in {<<"1",".","0">>, <<"1","2","3",".","1","2","3","4","5">>,
            <<"-","1",".","5">>}}
    \cup {[f |-> "deserialize_difficulty", x |-> JStr(<<"1">>)]}
    \cup {[f |-> "serde_hex_deserialize", x |-> JStr(t)] :
            t \in {<<"a","b","C","d">>, <<"0","1">>, <<"0","g">>}}
    \cup {[f |-> "serde_hex_deserialize", x |-> JNull]}
    \cup {[f |-> "serde_hex_serialize", x |-> [bytes |-> b]] : b \in {<<171, 205>>, <<1>>}}

\* The call run by itself, from its input to its result.
run_alone(call) ==
  CASE call.f = "deserialize_difficulty" -> deserialize_difficulty(call.x)
    [] call.f = "serde_hex_deserialize" -> serde_hex_deserialize(call.x)
    [] call.f = "serde_hex_serialize" -> Ok(serde_hex_serialize(call.x.bytes))

\* The first statement of each function: the local it binds, or the error
\* it returns with.
read_input(call) ==
  CASE call.f = "deserialize_difficulty" ->
         (LET f == deserialize_f64(call.x) IN
          IF ~f.ok THEN f ELSE Ok(f64_to_string[f.v]))
    [] call.f = "serde_hex_deserialize" -> deserialize_String(call.x)
    [] call.f = "serde_hex_serialize" -> Ok(to_hex(call.x.bytes))

\* The rest of each function, from the local to the result.
finish(f, local) ==
  CASE f = "deserialize_difficulty" -> difficulty_of_string[local.v]
    [] f = "serde_hex_deserialize" -> from_hex(local.v)
    [] f = "serde_hex_serialize" -> Ok(JStr(local.v))

\* Where a call keeps its local: in a frame of its own; a codec with one
\* buffer for all calls would keep it in the same place for every caller.
frame_of_shared(c) == 1
frame_of(c) == c

InitCallers ==
  /\ op = [c \in Callers |-> "idle"]
  /\ arg = [c \in Callers |-> Nothing]
  /\ out = [c \in Callers |-> Nothing]
  /\ wire = [c \in Callers |-> None]
  /\ prev = Nothing

Call(c) ==
  \E call \in CodecCalls :
    /\ op[c] = "idle"
    /\ op' = [op EXCEPT ![c] = "called"]
    /\ arg' = [arg EXCEPT ![c] = call]
    /\ UNCHANGED <<wire, out, prev>>

ReadInput(c) ==
  /\ op[c] = "called"
  /\ \E r \in {read_input(arg[c])} :
       IF r.ok
         THEN /\ wire' = [wire EXCEPT ![frame_of(c)] = Some(r.v)]
              /\ op' = [op EXCEPT ![c] = "read"]
              /\ UNCHANGED <<arg, out, prev>>
         ELSE /\ out' = [out EXCEPT ![c] = r]
              /\ op' = [op EXCEPT ![c] = "done"]
              /\ UNCHANGED <<arg, wire, prev>>

Finish(c) ==
  /\ op[c] = "read"
  /\ out' = [out EXCEPT ![c] = finish(arg[c].f, wire[frame_of(c)])]
  /\ wire' = [wire EXCEPT ![frame_of(c)] = None]
  /\ op' = [op EXCEPT ![c] = "done"]
  /\ UNCHANGED <<arg, prev>>

ReturnCall(c) ==
  /\ op[c] = "done"
  /\ op' = [op EXCEPT ![c] = "idle"]
  /\ arg' = [arg EXCEPT ![c] = Nothing]
  /\ out' = [out EXCEPT ![c] = Nothing]
  /\ UNCHANGED <<wire, prev>>

CallersNext ==
  \E c \in Callers :
    \/ Call(c)
    \/ ReadInput(c)
    \/ Finish(c)
    \/ ReturnCall(c)

SpecCallers == InitCallers /\ [][CallersNext]_vars

(***************************************************************************)
(* C3.  Canonical hex: two hex strings that differ only in letter case     *)
(* decode to equal byte sequences (one decodes exactly when the other      *)
(* does), and every encoded byte sequence is a lowercase hex string of     *)
(* even length, two digits per byte.                                       *)
(***************************************************************************)
IsLowerHex(s) ==
  \A i \in 1..Len(s) : IndexOf(HexChars, s[i]) # 0

C3_CanonicalHex ==
  /\ op = "hex_deserialize_recased" =>
       /\ out.ok = prev.out.ok
       /\ out.ok => out.v = prev.out.v
  /\ op = "hex_serialize" =>
       /\ wire.t = "str"
       /\ IsLowerHex(wire.s)
       /\ Len(wire.s) = 2 * Len(arg)

C3_Witness ==
  /\ op = "hex_deserialize_recased"
  /\ prev.wire.s = <<"A", "b", "C", "d">>
  /\ wire.s = <<"a", "b", "c", "d">>
  /\ out = Ok(<<171, 205>>)

\* The wire tags the enum tables list, variant by variant.

ListedTags(name) ==
  CASE name = "Bip125Replaceable" ->
         <<<<"y","e","s">>,
           <<"n","o">>,
           <<"u","n","k","n","o","w","n">>>>
    [] name = "GetTransactionResultDetailCategory" ->
         <<<<"s","e","n","d">>,
           <<"r","e","c","e","i","v","e">>,
           <<"g","e","n","e","r","a","t","e">>>>
    [] name = "Bip9SoftforkStatus" ->
         <<<<"d","e","f","i","n","e","d">>,
           <<"s","t","a","r","t","e","d">>,
           <<"l","o","c","k","e","d","_","i","n">>,
           <<"a","c","t","i","v","e">>,
           <<"f","a","i","l","e","d">>>>
    [] name = "SoftforkType" ->
         <<<<"b","u","r","i","e","d">>,
           <<"b","i","p","9">>>>
    [] name = "ScriptPubkeyType" ->
         <<<<"n","o","n","s","t","a","n","d","a","r","d">>,
           <<"p","u","b","k","e","y">>,
           <<"p","u","b","k","e","y","h","a","s","h">>,
           <<"s","c","r","i","p","t","h","a","s","h">>,
           <<"m","u","l","t","i","s","i","g">>,
           <<"n","u","l","l","d","a","t","a">>,
           <<"w","i","t","n","e","s","s","_","v","0","_","k","e","y","h","a","s","h">>,
           <<"w","i","t","n","e","s","s","_","v","0","_","s","c","r","i","p","t","h","a","s","h">>,
           <<"w","i","t","n","e","s","s","_","u","n","k","n","o","w","n">>>>
    [] name = "GetAddressInfoResultLabelPurpose" ->
         <<<<"s","e","n","d">>,
           <<"r","e","c","e","i","v","e">>>>
    [] name = "EstimateMode" ->
         <<<<"U","N","S","E","T">>,
           <<"E","C","O","N","O","M","I","C","A","L">>,
           <<"C","O","N","S","E","R","V","A","T","I","V","E">>>>
    [] name = "AddressType" ->
         <<<<"l","e","g","a","c","y">>,
           <<"p","2","s","h","-","s","e","g","w","i","t">>,
           <<"b","e","c","h","3","2">>>>

(***************************************************************************)
(* C8.  Every variant encodes to exactly the wire tag listed for it, no    *)
(* two variants of an enum encode to the same tag, and for the enums that  *)
(* can be decoded, decoding a variant's tag yields that variant.           *)
(***************************************************************************)
C8_EnumWireTags ==
  /\ op = "enum_serialize" =>
       /\ Len(ListedTags(arg.enum)) = Len(Enum(arg.enum).variants)
       /\ wire = JStr(ListedTags(arg.enum)[arg.variant])
       /\ \A j \in 1..Len(Enum(arg.enum).variants) :
            j # arg.variant => ListedTags(arg.enum)[j] # wire.s
  /\ op = "enum_roundtrip" => out = Ok(arg.variant)

C8_Witness ==
  /\ op = "enum_roundtrip"
  /\ arg.enum = "Bip9SoftforkStatus"
  /\ wire = JStr(<<"l","o","c","k","e","d","_","i","n">>)
  /\ out = Ok(3)

(***************************************************************************)
(* C9.  Enum decode is exact-match only: a string that is not, character   *)
(* for character, one of the enum's listed wire tags fails with an         *)
(* unknown-variant error and yields no variant.                            *)
(***************************************************************************)
C9_EnumExactMatch ==
  op = "enum_deserialize" =>
    (wire.s \notin Range(ListedTags(arg.enum)) => out = Err("unknown_variant"))

C9_Witness ==
  /\ op = "enum_deserialize"
  /\ arg.enum = "Bip125Replaceable"
  /\ wire = JStr(<<"Y","e","s">>)
  /\ out = Err("unknown_variant")


(***************************************************************************)
(* C1.  Amount precision: an amount of at most 21 * 10^14 satoshis (of     *)
(* either sign where the type is signed) that is encoded through the BTC   *)
(* adapter, required or optional, decodes to exactly the same amount.      *)
(***************************************************************************)
C1_AmountRoundTrip ==
  op = "amount_roundtrip" =>
    LET a == IF arg.kind.opt THEN arg.value.v ELSE arg.value IN
    Cmp[a.d, MaxMoney] <= 0 => out = Ok(arg.value)

C1_Witness ==
  /\ op = "amount_roundtrip"
  /\ arg.kind = [signed |-> TRUE, opt |-> FALSE]
  /\ arg.value = Sat(TRUE, Dec[MaxMoney])
  /\ out = Ok(Sat(TRUE, <<2,0,9,9,9,9,9,9,9,9,9,9,9,9,9,9>>))

(***************************************************************************)
(* C2.  Difficulty truncation: for a non-negative JSON number written X    *)
(* or X.Y, deserialize_difficulty returns the integer X.                   *)
(***************************************************************************)
C2_DifficultyTruncation ==
  op = "difficulty_deserialize" =>
    out = Ok(Strip[DigitValues[BeforeDot[arg.text]]])


(***************************************************************************)
(* C4.  Absent and null: for an optional field, the object without the     *)
(* field's key and the same object with the key set to null both decode,   *)
(* to the same record, in which the field is None.                         *)
(***************************************************************************)
\* The field whose key was taken out of the object.
MissingField == Leaf(Schema(arg.schema), arg.key)

C4_AbsentVsNull ==
  op = "struct_deserialize_null" /\ MissingField.f.option =>
    /\ prev.out.ok
    /\ out.ok
    /\ out.v = prev.out.v
    /\ At(out.v, MissingField.path) = None

(***************************************************************************)
(* C5.  A missing optional key decodes to None: when the object carries    *)
(* every key but that of one optional field, decoding succeeds and the     *)
(* field is None.                                                          *)
(***************************************************************************)
C5_MissingOptionalIsAbsent ==
  op = "struct_deserialize_missing" /\ MissingField.f.option /\ prev.out.ok =>
    /\ out.ok
    /\ At(out.v, MissingField.path) = None

(***************************************************************************)
(* C6.  Encoding leaves out the key of every optional field that is None:  *)
(* the encoded object has no such key, and so no null under it.            *)
(***************************************************************************)
C6_EncodeOmitsAbsent ==
  op = "struct_serialize" =>
    \A i \in OptionalFields(Schema(arg.schema)) :
      arg.value[i] = None =>
        WireKey(Schema(arg.schema), Schema(arg.schema).fields[i]) \notin DOMAIN wire.o

(***************************************************************************)
(* C7.  Round trip: a record that a decode produced, encoded and decoded   *)
(* again, gives the same record.                                           *)
(***************************************************************************)
C7_RoundTrip ==
  op = "struct_roundtrip" /\ arg.decoded =>
    /\ out.ok
    /\ out.v = arg.value

(***************************************************************************)
(* C10.  A missing required field is an error: when the object lacks the   *)
(* key of a field that is not an Option, decoding fails.                   *)
(***************************************************************************)
C10_MissingRequiredFails ==
  op = "struct_deserialize_missing" /\ ~MissingField.f.option => ~out.ok

\* C10 as the code has it: decoding fails when the object lacks the key of
\* a field that is neither an Option nor marked `default`; a field marked
\* `default` that is not an Option is the empty list when its key is
\* missing.
C10_MissingRequiredFailsUnlessDefault ==
  op = "struct_deserialize_missing" /\ ~MissingField.f.option =>
    IF MissingField.f.default
      THEN out.ok /\ At(out.v, MissingField.path) = <<>>
      ELSE ~out.ok

C10_Witness ==
  /\ op = "struct_deserialize_missing"
  /\ arg.schema = "GetRawTransactionResult"
  /\ arg.key = <<"t","x","i","d">>
  /\ prev.out.ok
  /\ ~out.ok

(***************************************************************************)
(* C11.  Unknown keys are ignored: an object that decodes, given one more  *)
(* key that names no field of the schema, decodes to the same record.      *)
(***************************************************************************)
C11_UnknownKeysIgnored ==
  op = "struct_deserialize_extra" =>
    /\ prev.out.ok
    /\ out.ok
    /\ out.v = prev.out.v

C11_Witness ==
  /\ op = "struct_deserialize_extra"
  /\ arg.schema = "GetTransactionResult"
  /\ arg.key = <<"w","a","l","l","e","t","c","o","n","f","l","i","c","t","s">>
  /\ wire.o[arg.key] = JArr(<<>>)
  /\ out.ok
  /\ out.v = prev.out.v

(***************************************************************************)
(* C12.  The two shapes of a transaction input: the object with only       *)
(* sequence and coinbase decodes with txid, vout, script_sig and           *)
(* txinwitness None; the object with sequence, txid, vout and scriptSig    *)
(* decodes with coinbase None; and is_coinbase() of a decoded input is     *)
(* true exactly when the object had the key coinbase.                      *)
(***************************************************************************)
VinField(v, name) == Get(GetRawTransactionResultVin, v, name)

C12_VinShapes ==
  /\ op = "vin_deserialize" /\ DOMAIN wire.o = CoinbaseVinKeys =>
        /\ out.ok
        /\ VinField(out.v, <<"c","o","i","n","b","a","s","e">>) # None
        /\ VinField(out.v, <<"t","x","i","d">>) = None
        /\ VinField(out.v, <<"v","o","u","t">>) = None
        /\ VinField(out.v, <<"s","c","r","i","p","t","_","s","i","g">>) = None
        /\ VinField(out.v, <<"t","x","i","n","w","i","t","n","e","s","s">>) = None
  /\ op = "vin_deserialize" /\ DOMAIN wire.o = SpendingVinKeys =>
        /\ out.ok
        /\ VinField(out.v, <<"c","o","i","n","b","a","s","e">>) = None
        /\ VinField(out.v, <<"t","x","i","d">>) # None
        /\ VinField(out.v, <<"v","o","u","t">>) # None
        /\ VinField(out.v, <<"s","c","r","i","p","t","_","s","i","g">>) # None
  /\ op = "vin_is_coinbase" =>
        /\ out = (<<"c","o","i","n","b","a","s","e">> \in DOMAIN wire.o)
        /\ out = (VinField(prev.out.v, <<"c","o","i","n","b","a","s","e">>) # None)

C12_Witness ==
  /\ op = "vin_is_coinbase"
  /\ DOMAIN wire.o = CoinbaseVinKeys
  /\ out = TRUE

(***************************************************************************)
(* C13.  Coinbase exclusivity: in a decoded transaction input, when        *)
(* coinbase is Some then txid, vout, script_sig and txinwitness are None,  *)
(* and when coinbase is None then txid, vout and script_sig are Some.      *)
(***************************************************************************)
C13_CoinbaseExclusive ==
  op = "vin_deserialize" /\ out.ok =>
    IF VinField(out.v, <<"c","o","i","n","b","a","s","e">>) # None
      THEN /\ VinField(out.v, <<"t","x","i","d">>) = None
           /\ VinField(out.v, <<"v","o","u","t">>) = None
           /\ VinField(out.v, <<"s","c","r","i","p","t","_","s","i","g">>) = None
           /\ VinField(out.v, <<"t","x","i","n","w","i","t","n","e","s","s">>) = None
      ELSE /\ VinField(out.v, <<"t","x","i","d">>) # None
           /\ VinField(out.v, <<"v","o","u","t">>) # None
           /\ VinField(out.v, <<"s","c","r","i","p","t","_","s","i","g">>) # None

(***************************************************************************)
(* C14.  is_coinbase() of a decoded transaction is true exactly when the   *)
(* transaction has one input and that input is a coinbase; it is false for *)
(* no inputs and for two or more.                                          *)
(***************************************************************************)
C14_TxIsCoinbase ==
  op = "tx_is_coinbase" =>
    LET vin == wire.o[<<"v","i","n">>].a IN
    /\ out \in BOOLEAN
    /\ out = (Len(vin) = 1 /\ DOMAIN vin[1].o = CoinbaseVinKeys)
    /\ Len(vin) # 1 => out = FALSE

C14_Witness ==
  /\ op = "tx_is_coinbase"
  /\ Len(wire.o[<<"v","i","n">>].a) = 2
  /\ DOMAIN wire.o[<<"v","i","n">>].a[1].o = CoinbaseVinKeys
  /\ out = FALSE

(***************************************************************************)
(* C15.  The script argument of importmulti: an address encodes to the     *)
(* object whose one key is "address", holding the address string; a script *)
(* encodes to a string, the lowercase hex of its bytes.                    *)
(***************************************************************************)
C15_ScriptPubkeyShapes ==
  op = "scriptpubkey_serialize" =>
    IF arg.variant = "Address"
      THEN /\ wire.t = "obj"
           /\ DOMAIN wire.o = {<<"a","d","d","r","e","s","s">>}
           /\ wire.o[<<"a","d","d","r","e","s","s">>] = JStr(arg.v)
      ELSE /\ wire.t = "str"
           /\ Len(wire.s) = 2 * Len(arg.v)
           /\ IsLowerHex(wire.s)
           /\ from_hex(wire.s) = Ok(arg.v)
           /\ arg.v = <<171, 205>> => wire.s = <<"a","b","c","d">>

C15_Witness ==
  /\ op = "scriptpubkey_serialize"
  /\ arg = [variant |-> "Script", v |-> <<171, 205>>]
  /\ wire = JStr(<<"a","b","c","d">>)

(***************************************************************************)
(* C16.  An address-or-key argument encodes to a string in both variants:  *)
(* to what the address, or the key, encodes to by itself.                  *)
(***************************************************************************)
C16_PubKeyOrAddressBare ==
  op = "pubkey_or_address_serialize" =>
    /\ wire.t = "str"
    /\ arg.variant = "Address" => wire = serialize_type(T_opaque("Address"), arg.v)
    /\ arg.variant = "PubKey" => wire = serialize_type(T_opaque("PublicKey"), arg.v)

C16_Witness ==
  /\ op = "pubkey_or_address_serialize"
  /\ arg.variant = "PubKey"
  /\ wire = JStr(arg.v)

(***************************************************************************)
(* C17.  Each of the six signature hash types encodes to its own literal   *)
(* string: ALL, NONE, SINGLE, ALL|ANYONECANPAY, NONE|ANYONECANPAY,         *)
(* SINGLE|ANYONECANPAY.                                                    *)
(***************************************************************************)
AnyoneCanPay == <<"|","A","N","Y","O","N","E","C","A","N","P","A","Y">>
ListedSigHashStrings ==
  {<<"A","L","L">>, <<"N","O","N","E">>, <<"S","I","N","G","L","E">>,
   <<"A","L","L">> \o AnyoneCanPay, <<"N","O","N","E">> \o AnyoneCanPay,
   <<"S","I","N","G","L","E">> \o AnyoneCanPay}

C17_SigHashTypeStrings ==
  /\ op = "sighashtype_serialize" =>
        /\ wire.t = "str"
        /\ wire.s \in ListedSigHashStrings
        /\ Len(arg) > 6 <=> Len(wire.s) > 6
        /\ \A i \in 1..3 : wire.s[i] = to_ascii_uppercase_char(arg[i])
        /\ arg = <<"A","l","l","P","l","u","s","A","n","y","o","n","e","C","a","n","P","a","y">>
             => wire.s = <<"A","L","L">> \o AnyoneCanPay
  /\ Cardinality({SigHashType_serialize(v) : v \in SigHashTypes}) = 6

C17_Witness ==
  /\ op = "sighashtype_serialize"
  /\ arg = <<"A","l","l","P","l","u","s","A","n","y","o","n","e","C","a","n","P","a","y">>
  /\ wire = JStr(<<"A","L","L","|","A","N","Y","O","N","E","C","A","N","P","A","Y">>)

(***************************************************************************)
(* C18.  Flattened composition: GetTransactionResult and                   *)
(* ListTransactionResult decode from one flat object that has the keys of  *)
(* the inlined structs next to their own; each inlined record is what its  *)
(* own schema reads from that same object, and no key holds a sub-object   *)
(* for an inlined record.                                                  *)
(***************************************************************************)
FlattenedFields(s) == {i \in 1..Len(s.fields) : s.fields[i].flatten}

C18_FlattenedComposition ==
  op = "struct_deserialize" /\ FlattenedFields(Schema(arg.schema)) # {} =>
    LET s == Schema(arg.schema) IN
    /\ DOMAIN wire.o =
         FieldKeys(s) \cup
           UNION {FieldKeys(Schema(s.fields[i].ty.name)) : i \in FlattenedFields(s)}
    /\ \A k \in DOMAIN wire.o : wire.o[k].t # "obj"
    /\ out.ok
    /\ \A i \in FlattenedFields(s) :
         Ok(out.v[i]) = deserialize_struct(Schema(s.fields[i].ty.name), wire)

C18_Witness ==
  /\ op = "struct_deserialize"
  /\ arg.schema = "ListTransactionResult"
  /\ {<<"c","o","n","f","i","r","m","a","t","i","o","n","s">>,
      <<"b","i","p","1","2","5","-","r","e","p","l","a","c","e","a","b","l","e">>,
      <<"a","d","d","r","e","s","s">>, <<"c","a","t","e","g","o","r","y">>,
      <<"t","r","u","s","t","e","d">>} \subseteq DOMAIN wire.o
  /\ out.ok
  /\ Get(WalletTxInfo, out.v[1], <<"c","o","n","f","i","r","m","a","t","i","o","n","s">>)
       = [neg |-> wire.o[<<"c","o","n","f","i","r","m","a","t","i","o","n","s">>].neg,
          d |-> wire.o[<<"c","o","n","f","i","r","m","a","t","i","o","n","s">>].d]

(***************************************************************************)
(* C19.  Signed amounts: a reply to gettransaction whose amount and fee    *)
(* are decimal numbers of at most eight decimals, negative ones included,  *)
(* decodes to those numbers of satoshis: -0.00613580 to -613580,           *)
(* -0.00000258 to -258, 1.00000000 to 100000000; without the key fee the   *)
(* fee is None.                                                            *)
(***************************************************************************)
TxField(v, name) == Get(GetTransactionResult, v, name)
DetailField(v, name) ==
  Get(GetTransactionResultDetail, TxField(v, <<"d","e","t","a","i","l","s">>)[1], name)

\* The satoshis of a decimal text, when it has no more than eight decimals.
SatoshisOf(t) == from_str_in_btc[TRUE, t]
ExpectedFee(fee) == IF fee.some THEN Some(SatoshisOf(fee.v).v) ELSE None

C19_SignedAmounts ==
  op = "gettransaction_deserialize" =>
    /\ SatoshisOf(arg.amount).ok /\ (arg.fee.some => SatoshisOf(arg.fee.v).ok) =>
         /\ out.ok
         /\ TxField(out.v, <<"a","m","o","u","n","t">>) = SatoshisOf(arg.amount).v
         /\ TxField(out.v, <<"f","e","e">>) = ExpectedFee(arg.fee)
         /\ DetailField(out.v, <<"a","m","o","u","n","t">>) = SatoshisOf(arg.amount).v
         /\ DetailField(out.v, <<"f","e","e">>) = ExpectedFee(arg.fee)
    /\ arg.amount = <<"-","0",".","0","0","6","1","3","5","8","0">>
         /\ arg.fee = Some(<<"-","0",".","0","0","0","0","0","2","5","8">>) =>
         /\ out.ok
         /\ TxField(out.v, <<"a","m","o","u","n","t">>) = Sat(TRUE, <<6,1,3,5,8,0>>)
         /\ TxField(out.v, <<"f","e","e">>) = Some(Sat(TRUE, <<2,5,8>>))
    /\ arg.amount = <<"1",".","0","0","0","0","0","0","0","0">> /\ arg.fee = None =>
         /\ out.ok
         /\ TxField(out.v, <<"a","m","o","u","n","t">>) = Sat(FALSE, <<1,0,0,0,0,0,0,0,0>>)
         /\ TxField(out.v, <<"f","e","e">>) = None

C19_Witness ==
  /\ op = "gettransaction_deserialize"
  /\ arg.amount = <<"-","0",".","0","0","6","1","3","5","8","0">>
  /\ arg.fee = Some(<<"-","0",".","0","0","0","0","0","2","5","8">>)
  /\ out.ok
  /\ DetailField(out.v, <<"a","m","o","u","n","t">>) = Sat(TRUE, <<6,1,3,5,8,0>>)
  /\ DetailField(out.v, <<"f","e","e">>) = Some(Sat(TRUE, <<2,5,8>>))

(***************************************************************************)
(* C20.  Hex bytes: a string of odd length, or with a character that is    *)
(* not one of 0-9, a-f, A-F, fails to decode with an invalid-hex error; a  *)
(* string of even length made of hex digits decodes to the bytes it        *)
(* spells.                                                                 *)
(***************************************************************************)
HexDigitChars ==
  {"0","1","2","3","4","5","6","7","8","9",
   "a","b","c","d","e","f","A","B","C","D","E","F"}
WellFormedHex(s) ==
  /\ Len(s) % 2 = 0
  /\ \A i \in 1..Len(s) : s[i] \in HexDigitChars

C20_MalformedHexRejected ==
  op \in {"hex_deserialize", "hex_deserialize_recased"} =>
    IF WellFormedHex(wire.s)
      THEN /\ out.ok
           /\ Len(out.v) * 2 = Len(wire.s)
           /\ to_hex(out.v) = to_ascii_lowercase(wire.s)
      ELSE out = Err("invalid_hex")

C20_Witness ==
  /\ op = "hex_deserialize"
  /\ wire.s = <<"0","A","b">>
  /\ out = Err("invalid_hex")

(***************************************************************************)
(* C21.  The difficulty of an encoded record is one JSON number without a  *)
(* decimal point.                                                          *)
(***************************************************************************)
BigUintFields(s) == {i \in 1..Len(s.fields) : s.fields[i].ty.k = "biguint"}

C21_DifficultyEncodesAsNumber ==
  op = "struct_serialize" =>
    \A i \in BigUintFields(Schema(arg.schema)) :
      LET j == wire.o[WireKey(Schema(arg.schema), Schema(arg.schema).fields[i])] IN
      /\ j.t = "num"
      /\ j.n = "int"
      /\ j.d = arg.value[i]

(***************************************************************************)
(* C22.  Encoding never fails: whatever record or argument is encoded, the *)
(* encoder returns a JSON value, and so does every encoder it calls for a  *)
(* part of the value.                                                      *)
(***************************************************************************)
RECURSIVE IsJson(_)
IsJson(j) ==
  /\ "t" \in DOMAIN j
  /\ CASE j.t = "null" -> TRUE
        [] j.t = "bool" -> j.b \in BOOLEAN
        [] j.t = "num" -> j.n \in {"int", "f64"}
        [] j.t = "str" -> \A i \in 1..Len(j.s) : j.s[i] \in STRING
        [] j.t = "arr" -> \A i \in 1..Len(j.a) : IsJson(j.a[i])
        [] j.t = "obj" -> \A k \in DOMAIN j.o : IsJson(j.o[k])
        [] OTHER -> FALSE

SerializeOps ==
  {"struct_serialize", "scriptpubkey_serialize", "pubkey_or_address_serialize",
   "sighashtype_serialize"}

C22_EncodeInfallible ==
  op \in SerializeOps => IsJson(wire)

C22_Witness ==
  /\ op = "struct_serialize"
  /\ arg.schema = "GetBlockResult"
  /\ Get(GetBlockResult, arg.value, <<"v","e","r","s","i","o","n","_","h","e","x">>) = None
  /\ Get(GetBlockResult, arg.value, <<"n","e","x","t","b","l","o","c","k","h","a","s","h">>) # None
  /\ IsJson(wire)

(***************************************************************************)
(* C23.  Calls are independent: however the steps of the callers           *)
(* interleave, the result of a finished call is the result of that call    *)
(* run by itself on its own input, and a step of one caller leaves the     *)
(* position, input and result of every other caller as they were.          *)
(***************************************************************************)
C23_ResultsOwnInputOnly ==
  \A c \in Callers : op[c] = "done" => out[c] = run_alone(arg[c])

C23_Witness ==
  /\ op[1] = "done"
  /\ op[2] = "read"
  /\ arg[1].f = "deserialize_difficulty"
  /\ arg[2].f = "deserialize_difficulty"
  /\ arg[1] # arg[2]
  /\ out[1] = Ok(<<1, 2, 3>>)
  /\ wire[2] = Some(<<"1">>)

(***************************************************************************)
(* C24.  transaction() of GetRawTransactionResult, GetTransactionResult,   *)
(* SignRawTransactionResult and FundRawTransactionResult decodes the bytes *)
(* of hex as a consensus transaction: bytes that are a transaction give    *)
(* the transaction, whose first input spends the txid written in the       *)
(* bytes; other bytes give a decoding error; the four records answer alike *)
(* for the same bytes; and the record is as it was before the call.        *)
(***************************************************************************)
C24_TransactionAccessor ==
  op = "transaction" =>
    /\ arg.self = Some(prev.out.v)
    /\ out.ok = arg.tx.valid
    /\ out.ok => out.v.input[1].previous_output.txid = arg.tx.txid
    /\ \A n \in TransactionResults :
         transaction(n, [SampleRecord(Schema(n))
                           EXCEPT ![FieldIndex(Schema(n), <<"h","e","x">>)] =
                             arg.tx.bytes]).result = out

C24_Witness ==
  /\ op = "transaction"
  /\ arg.schema = "FundRawTransactionResult"
  /\ arg.tx.bytes = SegwitTx(2)
  /\ out.ok
  /\ Len(out.v.input) = 1
  /\ out.v.input[1].previous_output.txid = TxidBytes(2)
  /\ out.v.input[1].witness = <<<<48>>, <<3, 4>>>>
  /\ out.v.output[1].value = <<4,4,9,8,8,3,4,4,6,1>>

(***************************************************************************)
(* C25.  to_filter() and into_filter() of GetBlockFilterResult give the    *)
(* same BlockFilter, whose content is exactly the filter bytes of the      *)
(* record; to_filter() leaves the record as it was, so that it can be      *)
(* asked again, with the same answer.                                      *)
(***************************************************************************)
C25_FilterAccessors ==
  op \in {"to_filter", "into_filter"} =>
    /\ out = BlockFilter(arg.bytes)
    /\ op = "to_filter" => arg.self = prev.self
    /\ prev.op = "to_filter" => out = prev.out

C25_Witness ==
  /\ op = "into_filter"
  /\ prev.op = "to_filter"
  /\ out = BlockFilter(<<0, 255>>)
  /\ prev.out = BlockFilter(<<0, 255>>)

(***************************************************************************)
(* C26.  Decoding is all or nothing: an object that decodes, with one      *)
(* value malformed at any depth (a field, a field of an element of vin,    *)
(* an element of an array of hex, a field of an entry of the softforks     *)
(* map), fails to decode as a whole and gives no record.                   *)
(***************************************************************************)
C26_AllOrNothing ==
  op = "struct_deserialize_malformed" =>
    /\ prev.out.ok
    /\ ~out.ok
    /\ "v" \notin DOMAIN out

C26_Witness ==
  /\ op = "struct_deserialize_malformed"
  /\ arg.schema = "GetRawTransactionResult"
  /\ \E vin \in {wire.o[<<"v","i","n">>]} :
       /\ vin.t = "arr"
       /\ vin.a[1].t = "obj"
       /\ \E w \in {vin.a[1].o[<<"t","x","i","n","w","i","t","n","e","s","s">>]} :
            /\ w.t = "arr"
            /\ w.a[2] = NotHex
  /\ prev.out.ok
  /\ ~out.ok

(***************************************************************************)
(* C27.  txinwitness is read by deserialize_hex_array_opt: an array of hex *)
(* strings gives the list of their bytes, present, in the same order and   *)
(* of the same length (["0102","a1ff"] gives [[1,2],[161,255]], the empty  *)
(* array gives the empty list and not an absent one); one element that is  *)
(* not hex fails the decode; without the key the field is absent.          *)
(***************************************************************************)
C27_HexArray ==
  /\ op = "vin_witness_deserialize" =>
       IF \A i \in 1..Len(arg.witness) : WellFormedHex(arg.witness[i].s)
         THEN /\ out.ok
              /\ \E w \in {VinField(out.v, <<"t","x","i","n","w","i","t","n","e","s","s">>)} :
                   /\ w.some
                   /\ Len(w.v) = Len(arg.witness)
                   /\ \A i \in 1..Len(w.v) :
                        to_hex(w.v[i]) = to_ascii_lowercase(arg.witness[i].s)
         ELSE ~out.ok
  /\ (/\ op = "vin_deserialize"
      /\ <<"t","x","i","n","w","i","t","n","e","s","s">> \notin DOMAIN wire.o) =>
       /\ out.ok
       /\ VinField(out.v, <<"t","x","i","n","w","i","t","n","e","s","s">>) = None

C27_Witness ==
  /\ op = "vin_witness_deserialize"
  /\ arg.witness = <<JStr(<<"0","1","0","2">>), JStr(<<"a","1","f","f">>)>>
  /\ out.ok
  /\ VinField(out.v, <<"t","x","i","n","w","i","t","n","e","s","s">>)
       = Some(<<<<1, 2>>, <<161, 255>>>>)

(***************************************************************************)
(* C28.  deserialize_difficulty of a number whose printed form does not    *)
(* begin with decimal digits, as that of every number below zero, fails    *)
(* with the message "error parsing difficulty: " followed by the printed   *)
(* form of the number, and gives no big integer.                           *)
(***************************************************************************)
C28_DifficultyError ==
  op = "difficulty_deserialize_negative" =>
    /\ ~out.ok
    /\ "v" \notin DOMAIN out
    /\ out.e = <<"error parsing difficulty: ", arg.printed>>

C28_Witness ==
  /\ op = "difficulty_deserialize_negative"
  /\ arg.text = <<"-","1",".","5">>
  /\ out = Err(<<"error parsing difficulty: ", <<"-","1",".","5">>>>)

(***************************************************************************)
(* C29.  The encoding of an ImportMultiRequest has the key timestamp       *)
(* always, and of desc, scriptPubKey, redeemscript, witnessscript, range,  *)
(* internal, watchonly, label and keypool those that are not None, and of  *)
(* pubkeys and keys those whose slice is not empty; the default request    *)
(* encodes to the object whose only key is timestamp.                      *)
(***************************************************************************)
ImportMultiKeys ==
  <<<<"t","i","m","e","s","t","a","m","p">>,
    <<"d","e","s","c">>,
    <<"s","c","r","i","p","t","P","u","b","K","e","y">>,
    <<"r","e","d","e","e","m","s","c","r","i","p","t">>,
    <<"w","i","t","n","e","s","s","s","c","r","i","p","t">>,
    <<"p","u","b","k","e","y","s">>,
    <<"k","e","y","s">>,
    <<"r","a","n","g","e">>,
    <<"i","n","t","e","r","n","a","l">>,
    <<"w","a","t","c","h","o","n","l","y">>,
    <<"l","a","b","e","l">>,
    <<"k","e","y","p","o","o","l">>>>
ImportMultiSlices == {6, 7}

C29_ImportMultiRequestKeys ==
  op = "import_multi_request_serialize" =>
    /\ wire.t = "obj"
    /\ DOMAIN wire.o =
         {ImportMultiKeys[1]}
           \cup {ImportMultiKeys[i] : i \in {i \in ImportMultiSlices : arg.value[i] # <<>>}}
           \cup {ImportMultiKeys[i] :
                   i \in {i \in (2..Len(ImportMultiKeys)) \ ImportMultiSlices :
                            arg.value[i] # None}}
    /\ arg.value = ImportMultiRequest_default =>
         DOMAIN wire.o = {<<"t","i","m","e","s","t","a","m","p">>}

C29_Witness ==
  /\ op = "import_multi_request_serialize"
  /\ arg.value = ImportMultiRequest_default
  /\ wire = JObj([k \in {<<"t","i","m","e","s","t","a","m","p">>} |-> JInt(FALSE, <<0>>)])

(***************************************************************************)
(* C30.  script() of GetRawTransactionResultVinScriptSig and of            *)
(* GetRawTransactionResultVoutScriptPubKey never fails: for every bytes    *)
(* in hex, none at all included, it gives the Script made of those bytes,  *)
(* and the record is as it was before the call.                            *)
(***************************************************************************)
C30_ScriptAccessor ==
  op = "script" =>
    /\ out.ok
    /\ out.v = Script(arg.bytes)
    /\ arg.self = Some(prev.out.v)

C30_Witness ==
  /\ op = "script"
  /\ arg.schema = "GetRawTransactionResultVoutScriptPubKey"
  /\ arg.bytes = <<>>
  /\ out = Ok(Script(<<>>))

=============================================================================
